---- MODULE Spec2Model ----
(***************************************************************************)
(* Material resolution (Render/rdrmaterials.py) and POV-Ray material       *)
(* generation (Render/renderers/Povray.py) of the FreeCAD Render workbench. *)
(*                                                                         *)
(* Conventions                                                             *)
(*   - a Python float is an integer number of hundredths (0.8 is 80);      *)
(*   - every Python value is a record whose field k names its kind, so     *)
(*     that values of different kinds can be compared;                     *)
(*   - a raised exception is the value [k |-> "raise", exc |-> <type>];    *)
(*   - a dict or a namespace is a sequence of [key, val] items, in         *)
(*     insertion order (Python keeps it).                                  *)
(***************************************************************************)
EXTENDS Integers, Sequences, FiniteSets, TLC

VARIABLES
    materials,      \* App.ActiveDocument.Objects: sequence of material objects
    textures,       \* App.ActiveDocument texture objects: name -> Scale
    docChanged,     \* history: the document was modified since Init
    cacheStandard,  \* lru_cache of _build_standard: sequence of [key, val], oldest first
    cachePassthrough, \* lru_cache of _build_passthrough
    cacheFallback,  \* lru_cache of _build_fallback
    cacheConvert,   \* lru_cache of _convert_passthru
    built,          \* history: the keys the builders have stored so far
    last,           \* the last operation: its arguments and its outcome
    ncalls,         \* number of operations so far
    budget          \* number of operations of this behaviour

vars == <<materials, textures, docChanged, cacheStandard, cachePassthrough,
          cacheFallback, cacheConvert, built, last, ncalls, budget>>

(***************************************************************************)
(* Bounds of the model.                                                    *)
(***************************************************************************)
\* Number of operations in one behaviour.
MaxCalls == 3
\* Capacity of each lru_cache.  The source sets maxsize=128; the model scales
\* it down so that eviction happens within MaxCalls operations.
MaxSize == 1
\* Number of setshaderparam calls on a material a caller builds.
MaxSets == 2
\* Depth at which Python gives up a recursion (RecursionError).  CPython's
\* default is 1000; the model scales it down, well above the document size.
RecursionLimit == 5

(***************************************************************************)
(* Python values.                                                          *)
(***************************************************************************)
None == [k |-> "None"]
Raise(e) == [k |-> "raise", exc |-> e]
IsRaise(v) == v.k = "raise"
PyFloat(v) == [k |-> "float", v |-> v]
PyStr(s) == [k |-> "str", s |-> s]
RGB(r, g, b) == [k |-> "RGB", r |-> r, g |-> g, b |-> b]
RGBA(r, g, b, a) == [k |-> "RGBA", r |-> r, g |-> g, b |-> b, a |-> a]
Node(items) == [k |-> "node", items |-> items]
Item(key, val) == [key |-> key, val |-> val]

InSeq(x, s) == \E i \in 1..Len(s) : s[i] = x

\* dict lookup / assignment, keeping the insertion order of the keys
HasKey(d, key) == \E i \in 1..Len(d) : d[i].key = key
Get(d, key) == d[CHOOSE i \in 1..Len(d) : d[i].key = key].val
Put(d, key, val) ==
    IF HasKey(d, key)
    THEN [i \in 1..Len(d) |-> IF d[i].key = key THEN Item(key, val) ELSE d[i]]
    ELSE Append(d, Item(key, val))

(***************************************************************************)
(* Param tables.                                                           *)
(***************************************************************************)
Param(name, type, default) == [name |-> name, type |-> type, default |-> default]

\* The defaults are kept as str(default), the text the cast functions see.
STD_MATERIALS_PARAMETERS ==
    [Glass |-> << Param("Color", "RGB", "(1, 1, 1)"),
                  Param("IOR", "float", "1.5"),
                  Param("Bump", "texonly", ""),
                  Param("Normal", "texonly", "") >>,
     Disney |-> << Param("BaseColor", "RGB", "(0.8, 0.8, 0.8)"),
                   Param("Subsurface", "float", "0.0"),
                   Param("Metallic", "float", "0.0"),
                   Param("Specular", "float", "0.0"),
                   Param("SpecularTint", "float", "0.0"),
                   Param("Roughness", "float", "0.0"),
                   Param("Anisotropic", "float", "0.0"),
                   Param("Sheen", "float", "0.0"),
                   Param("SheenTint", "float", "0.0"),
                   Param("ClearCoat", "float", "0.0"),
                   Param("ClearCoatGloss", "float", "0.0"),
                   Param("Bump", "texonly", ""),
                   Param("Normal", "texonly", ""),
                   Param("Displacement", "texonly", "") >>,
     Diffuse |-> << Param("Color", "RGB", "(0.8, 0.8, 0.8)"),
                    Param("Bump", "texonly", ""),
                    Param("Normal", "texonly", "") >>,
     Mixed |-> << Param("Diffuse.Color", "RGB", "(0.8, 0.8, 0.8)"),
                  Param("Glass.Color", "RGB", "(1, 1, 1)"),
                  Param("Glass.IOR", "float", "1.5"),
                  Param("Transparency", "float", "0.5"),
                  Param("Bump", "texonly", ""),
                  Param("Normal", "texonly", "") >>,
     Carpaint |-> << Param("BaseColor", "RGB", "(0.8, 0.2, 0.2)"),
                     Param("Bump", "texonly", ""),
                     Param("Normal", "texonly", "") >>]

(***************************************************************************)
(* Texts and numbers.  TLC cannot take a string apart, so each conversion  *)
(* between a text and a value is a table over the texts of the model.      *)
(***************************************************************************)
\* float(text) for the numeric texts of the model, in hundredths.
FloatTexts ==
    { <<"0", 0>>, <<"0.0", 0>>, <<"0.2", 20>>, <<"0.5", 50>>, <<"0.8", 80>>,
      <<"1", 100>>, <<"1.0", 100>>, <<"1.5", 150>>, <<"50", 5000>>,
      <<"100", 10000>> }

\* Python's float(text): a number, or ValueError for a non-numeric text.
float(text) ==
    IF \E p \in FloatTexts : p[1] = text
    THEN PyFloat((CHOOSE p \in FloatTexts : p[1] = text)[2])
    ELSE Raise("ValueError")

\* Python's str(x) of a float: the shortest text with a decimal point.
FloatRepr(v) ==
    CASE v = 0 -> "0.0" [] v = 20 -> "0.2" [] v = 50 -> "0.5" [] v = 80 -> "0.8"
      [] v = 100 -> "1.0" [] v = 150 -> "1.5" [] OTHER -> ToString(v) \o "e-2"

\* The color triples the texts of the model denote.
ColorTriples ==
    { <<80, 80, 80>>, <<100, 100, 100>>, <<80, 20, 20>>, <<100, 0, 0>>,
      <<20, 50, 80>> }

Join(sep, t) == FloatRepr(t[1]) \o sep \o FloatRepr(t[2]) \o sep \o FloatRepr(t[3])

\* The texts that denote a color: "r,g,b" (as _build_fallback writes it),
\* "(r, g, b)" (str of a tuple), "(r,g,b)" (a material card), and the texts of
\* the integer default (1, 1, 1) and of _build_fallback's default color.
ColorTexts ==
    UNION { { <<Join(",", t), t>>, <<"(" \o Join(", ", t) \o ")", t>>,
              <<"(" \o Join(",", t) \o ")", t>> } : t \in ColorTriples }
    \cup { <<"(1, 1, 1)", <<100, 100, 100>> >>, <<"0.8, 0.8, 0.8", <<80, 80, 80>> >> }

\* Texts that look like a tuple with a wrong number of components.
WrongArityTexts == { "(0.8,0.8)", "0.8" }

\* Render.utils.str2rgb: the RGB a "(r,g,b)" text denotes.  A value that is not
\* a sequence of three (None, a single number, a pair) is a TypeError, which
\* is what the callers catch; a non-numeric token is float()'s ValueError.
str2rgb(text) ==
    IF \E p \in ColorTexts : p[1] = text
    THEN LET t == (CHOOSE p \in ColorTexts : p[1] = text)[2]
         IN RGB(t[1], t[2], t[3])
    ELSE IF text = "None" \/ text \in WrongArityTexts
         THEN Raise("TypeError")
         ELSE Raise("ValueError")

\* Render.utils.parse_csv_str: the fields of a semicolon separated text.
parse_csv_str(text) ==
    CASE text = "" -> << >>
      [] text = "Texture;T1:Diffuse" -> <<"Texture", "T1:Diffuse">>
      [] text = "Texture;T9:Diffuse" -> <<"Texture", "T9:Diffuse">>
      [] text = "0.5;Object" -> <<"0.5", "Object">>
      [] OTHER -> <<text>>

\* Render.texture.str2imageid: "<texture>:<image>" taken apart.
str2imageid(text) ==
    CASE text = "T1:Diffuse" -> [texture |-> "T1", image |-> "Diffuse"]
      [] text = "T9:Diffuse" -> [texture |-> "T9", image |-> "Diffuse"]
      [] OTHER -> [texture |-> text, image |-> ""]

(***************************************************************************)
(* Cast functions.  doc is the document's texture objects (name -> Scale); *)
(* App.ActiveDocument.getObject gives None for a name it does not hold,    *)
(* and the attribute access on None is an AttributeError.                  *)
(***************************************************************************)
RendererTexture(parsed, doc) ==
    IF Len(parsed) < 2 THEN Raise("IndexError")
    ELSE LET imageid == str2imageid(parsed[2])
         IN IF imageid.texture \notin DOMAIN doc THEN Raise("AttributeError")
            ELSE [k |-> "tex",
                  name |-> imageid.texture,
                  subname |-> imageid.image,
                  file |-> imageid.texture \o ".png",
                  rotation |-> 0,
                  scale |-> doc[imageid.texture],
                  translation_u |-> 0,
                  translation_v |-> 0]

IsTexture(v) == v.k = "tex"

_castrgb(value, objcol, doc) ==
    LET parsed == parse_csv_str(value)
    IN IF InSeq("Object", parsed) THEN objcol
       ELSE IF InSeq("Texture", parsed) THEN RendererTexture(parsed, doc)
       ELSE IF Len(parsed) = 0 THEN Raise("IndexError")
       ELSE str2rgb(parsed[1])

_castfloat(value, objcol, doc) ==
    LET parsed == parse_csv_str(value)
    IN IF InSeq("Texture", parsed) THEN RendererTexture(parsed, doc)
       ELSE IF Len(parsed) = 0 THEN Raise("IndexError")
       ELSE IF parsed[1] = "" THEN PyFloat(0)
       ELSE float(parsed[1])

_caststr(value, objcol, doc) == PyStr(value)

\* A texonly cast that does not look for the texture marker.
_casttexonly_NoMarker(value, objcol, doc) == None

_casttexonly(value, objcol, doc) ==
    LET parsed == parse_csv_str(value)
    IN IF InSeq("Texture", parsed) THEN RendererTexture(parsed, doc)
       ELSE None

CAST_FUNCTIONS(typ, value, objcol, doc) ==
    CASE typ = "float" -> _castfloat(value, objcol, doc)
      [] typ = "RGB" -> _castrgb(value, objcol, doc)
      [] typ = "string" -> _caststr(value, objcol, doc)
      [] typ = "texonly" -> _casttexonly(value, objcol, doc)

(***************************************************************************)
(* RenderMaterial.                                                         *)
(***************************************************************************)
\* str.lower() on the names of the model.
lower(s) ==
    CASE s = "Glass" -> "glass" [] s = "Disney" -> "disney"
      [] s = "Diffuse" -> "diffuse" [] s = "Mixed" -> "mixed"
      [] s = "Carpaint" -> "carpaint" [] s = "Passthrough" -> "passthrough"
      [] s = "Color" -> "color" [] s = "IOR" -> "ior" [] s = "Bump" -> "bump"
      [] s = "Normal" -> "normal" [] s = "Displacement" -> "displacement"
      [] s = "BaseColor" -> "basecolor" [] s = "Subsurface" -> "subsurface"
      [] s = "Metallic" -> "metallic" [] s = "Specular" -> "specular"
      [] s = "SpecularTint" -> "speculartint" [] s = "Roughness" -> "roughness"
      [] s = "Anisotropic" -> "anisotropic" [] s = "Sheen" -> "sheen"
      [] s = "SheenTint" -> "sheentint" [] s = "ClearCoat" -> "clearcoat"
      [] s = "ClearCoatGloss" -> "clearcoatgloss"
      [] s = "Transparency" -> "transparency" [] s = "Foo" -> "foo"
      [] s = "Shader" -> "shader"
      [] OTHER -> s

\* name.split(".") on the parameter names of the model.
split(name) ==
    CASE name = "Diffuse.Color" -> <<"Diffuse", "Color">>
      [] name = "Glass.Color" -> <<"Glass", "Color">>
      [] name = "Glass.IOR" -> <<"Glass", "IOR">>
      [] OTHER -> <<name>>

LowerAll(path) == [i \in 1..Len(path) |-> lower(path[i])]

\* RenderMaterial.__init__: shader is the namespace named shadertype.lower().
RenderMaterial(shadertype) ==
    [k |-> "RenderMaterial",
     shadertype |-> shadertype,
     shader |-> << >>,
     default_color |-> RGBA(80, 80, 80, 100),
     partypes |-> << >>]

\* The namespace walk of setshaderparam below the shader namespace: path is
\* the rest of the path, items the attributes of the current namespace.
RECURSIVE SetIn(_, _, _)
SetIn(items, path, value) ==
    IF Len(path) = 1 THEN Put(items, path[1], value)
    ELSE LET elem == path[1]
             items1 == IF HasKey(items, elem) THEN items
                       ELSE Put(Put(items, elem, Node(<< >>)), "shader", PyStr(elem))
         IN Put(items1, elem, Node(SetIn(Get(items1, elem).items, Tail(path), value)))

\* A variant of TypesIn that records the type of the leaf only, nothing for
\* the namespaces it creates.
TypesIn_LeafOnly(partypes, items, path, paramtype) ==
    Put(partypes, path[Len(path)], paramtype)

\* The types setshaderparam records on the same walk.
RECURSIVE TypesIn(_, _, _, _)
TypesIn(partypes, items, path, paramtype) ==
    IF Len(path) = 1 THEN Put(partypes, path[1], paramtype)
    ELSE LET elem == path[1]
             created == ~HasKey(items, elem)
             partypes1 == IF created
                          THEN Put(Put(partypes, elem, "node"), "shader", "str")
                          ELSE partypes
             sub == IF created THEN << >> ELSE Get(items, elem).items
         IN TypesIn(partypes1, sub, Tail(path), paramtype)

\* The walk reaches the position of the parameter: every attribute on the
\* way is missing (and created) or a namespace.  An attribute holding a plain
\* value is taken as the position, and setattr on it raises AttributeError.
RECURSIVE Walkable(_, _)
Walkable(items, path) ==
    \/ Len(path) = 1
    \/ ~HasKey(items, path[1])
    \/ /\ Get(items, path[1]).k = "node"
       /\ Walkable(Get(items, path[1]).items, Tail(path))

setshaderparam(self, name, value, paramtype) ==
    LET path == LowerAll(split(name))
    IN IF ~Walkable(self.shader, path) THEN Raise("AttributeError")
       ELSE [self EXCEPT
                !.shader = SetIn(self.shader, path, value),
                !.partypes = TypesIn(self.partypes, self.shader, path, paramtype)]

RECURSIVE GetIn(_, _)
GetIn(items, path) ==
    IF ~HasKey(items, path[1]) THEN Raise("AttributeError")
    ELSE IF Len(path) = 1 THEN Get(items, path[1])
    ELSE IF Get(items, path[1]).k # "node" THEN Raise("AttributeError")
    ELSE GetIn(Get(items, path[1]).items, Tail(path))

getshaderparam(self, name) == GetIn(self.shader, LowerAll(split(name)))

shadername(self) == lower(self.shadertype)

shaderproperties(self) == self.shader

get_param_type(self, param_name) ==
    IF HasKey(self.partypes, param_name) THEN Get(self.partypes, param_name)
    ELSE "KeyError"

(***************************************************************************)
(* Builders.  A value tuple is <<nam, val, dft, typ, objcol>>; val is the  *)
(* text "None" when the card has no such key (the casts take str(val)).    *)
(***************************************************************************)
\* except TypeError: value = cast_function(dft, objcol)
ExceptTypeError(value, v, doc) ==
    IF IsRaise(value) /\ value.exc = "TypeError"
    THEN CAST_FUNCTIONS(v[4], v[3], v[5], doc)
    ELSE value

\* One parameter of _build_standard's loop: the cast of the raw value, retried
\* with the default on TypeError only.
CastParam(v, doc) == ExceptTypeError(CAST_FUNCTIONS(v[4], v[2], v[5], doc), v, doc)

\* The loop of _build_standard from its i-th value on; an exception of a cast
\* leaves the function.
RECURSIVE BuildLoop(_, _, _, _)
BuildStep(res, values, i, doc, value) ==
    IF IsRaise(value) THEN value
    ELSE BuildLoop(setshaderparam(res, values[i][1], value, values[i][4]),
                   values, i + 1, doc)

BuildLoop(res, values, i, doc) ==
    IF i > Len(values) THEN res
    ELSE BuildStep(res, values, i, doc, CastParam(values[i], doc))

\* res.default_color = res.getshaderparam(par.name)
SetDefaultColor(res, col) ==
    IF IsRaise(col) THEN col ELSE [res EXCEPT !.default_color = col]

\* A default color taken from the first parameter set, not the first of the
\* family's table.
DefaultColorOf_FirstSet(res, shadertype) ==
    IF IsRaise(res) THEN res
    ELSE SetDefaultColor(res, res.shader[1].val)

DefaultColorOf(res, shadertype) ==
    IF IsRaise(res) THEN res
    ELSE SetDefaultColor(res, getshaderparam(res, STD_MATERIALS_PARAMETERS[shadertype][1].name))

\* The function lru_cache wraps as _build_standard.
BuildStandard(shadertype, values, doc) ==
    DefaultColorOf(BuildLoop(RenderMaterial(shadertype), values, 1, doc), shadertype)

PASSTHRU_REPLACED_TOKENS ==
    << <<"{", "{{">>, <<"}", "}}">>, <<"%NAME%", "{n}">>, <<"%RED%", "{c.r}">>,
       <<"%GREEN%", "{c.g}">>, <<"%BLUE%", "{c.b}">> >>

(***************************************************************************)
(* functools.lru_cache(maxsize): a sequence of [key, val], least recently  *)
(* used first.  A call that raises stores nothing.                         *)
(***************************************************************************)
LruHit(cache, key) == HasKey(cache, key)

\* A hit moves the entry to the most recently used end.
LruTouch(cache, key) ==
    LET i == CHOOSE j \in 1..Len(cache) : cache[j].key = key
    IN Append(SubSeq(cache, 1, i - 1) \o SubSeq(cache, i + 1, Len(cache)), cache[i])

\* A miss stores the result and evicts the least recently used entry when full.
LruStore(cache, key, val) ==
    LET c == Append(cache, Item(key, val))
    IN IF Len(c) > MaxSize THEN SubSeq(c, Len(c) - MaxSize + 1, Len(c)) ELSE c

\* The four caches of the module, as one record.
Caches(std, pas, fbk, cnv) == [std |-> std, pas |-> pas, fbk |-> fbk, cnv |-> cnv]
\* What a cached builder gives: its result, the caches after the call, whether
\* the call was a cache hit, and the key of the call.
Out(res, C, hit, key) == [res |-> res, C |-> C, hit |-> hit, key |-> key]

EmptyCaches == Caches(<< >>, << >>, << >>, << >>)

\* A miss of _build_standard: the result is stored unless the call raised.
StoreStandard(C, key, res) ==
    IF IsRaise(res) THEN Out(res, C, FALSE, key)
    ELSE Out(res, [C EXCEPT !.std = LruStore(C.std, key, res)], FALSE, key)

_build_standard(C, shadertype, values, doc) ==
    LET key == [shadertype |-> shadertype, values |-> values]
    IN IF LruHit(C.std, key)
       THEN Out(Get(C.std, key), [C EXCEPT !.std = LruTouch(C.std, key)], TRUE, key)
       ELSE StoreStandard(C, key, BuildStandard(shadertype, values, doc))

\* str.replace over a text kept as a sequence of tokens: a placeholder, a
\* brace, or a chunk of other characters.
Replace(text, old, new) ==
    [i \in 1..Len(text) |-> IF text[i] = old THEN new ELSE text[i]]

RECURSIVE ConvertLoop(_, _)
ConvertLoop(passthru, i) ==
    IF i > Len(PASSTHRU_REPLACED_TOKENS) THEN passthru
    ELSE ConvertLoop(Replace(passthru, PASSTHRU_REPLACED_TOKENS[i][1],
                             PASSTHRU_REPLACED_TOKENS[i][2]), i + 1)

StoreConvert(C, passthru, res) ==
    Out(res, [C EXCEPT !.cnv = LruStore(C.cnv, passthru, res)], FALSE, passthru)

_convert_passthru(C, passthru) ==
    IF LruHit(C.cnv, passthru)
    THEN Out(Get(C.cnv, passthru), [C EXCEPT !.cnv = LruTouch(C.cnv, passthru)],
             TRUE, passthru)
    ELSE StoreConvert(C, passthru, ConvertLoop(passthru, 1))

\* "\n".join(lines)
RECURSIVE JoinLines(_)
JoinLines(lines) ==
    IF Len(lines) = 0 THEN << >>
    ELSE IF Len(lines) = 1 THEN lines[1]
    ELSE lines[1] \o <<"\n">> \o JoinLines(Tail(lines))

\* The function lru_cache wraps as _build_passthrough; cnv is what the call of
\* _convert_passthru gave.
BuildPassthrough(cnv, renderer, default_color) ==
    Out([RenderMaterial("Passthrough") EXCEPT
            !.shader = << Item("string", [k |-> "text", s |-> cnv.res]),
                          Item("renderer", PyStr(renderer)) >>,
            !.default_color = default_color,
            !.partypes = << Item("string", "str"), Item("renderer", "str"),
                            Item("default_color", "RGBA") >>],
        cnv.C, FALSE, None)

StorePassthrough(key, out) ==
    Out(out.res, [out.C EXCEPT !.pas = LruStore(out.C.pas, key, out.res)], FALSE, key)

_build_passthrough(C, lines, renderer, default_color) ==
    LET key == [lines |-> lines, renderer |-> renderer, default_color |-> default_color]
    IN IF LruHit(C.pas, key)
       THEN Out(Get(C.pas, key), [C EXCEPT !.pas = LruTouch(C.pas, key)], TRUE, key)
       ELSE StorePassthrough(key, BuildPassthrough(_convert_passthru(C, JoinLines(lines)),
                                                   renderer, default_color))

\* ",".join([str(c) for c in color[:3]])
ColorText(color) == Join(",", <<color.r, color.g, color.b>>)

\* A variant of FallbackKey that leaves the transparency out of the key.
FallbackKey_NoAlpha(color) == RGB(color.r, color.g, color.b)

\* The key lru_cache gives a call of _build_fallback: its one argument.
FallbackKey(color) == color

\* A miss of _build_fallback: std is what the call of _build_standard gave.
StoreFallback(color, std) ==
    IF IsRaise(std.res) THEN Out(std.res, std.C, FALSE, FallbackKey(color))
    ELSE Out(std.res,
             [std.C EXCEPT !.fbk = LruStore(std.C.fbk, FallbackKey(color), std.res)],
             FALSE, FallbackKey(color))

\* A variant of FallbackFamily with the two tests on the transparency swapped.
FallbackFamily_Swapped(alpha) ==
    IF alpha = 100 THEN "Diffuse" ELSE IF alpha = 0 THEN "Glass" ELSE "Mixed"

\* if float(_alpha) == 0 ... elif float(_alpha) == 1 ... else: the family the
\* fallback builds, alpha in hundredths.
FallbackFamily(alpha) ==
    IF alpha = 0 THEN "Diffuse" ELSE IF alpha = 100 THEN "Glass" ELSE "Mixed"

\* The values tuple _build_fallback hands to _build_standard for a family.
FallbackValues(shadertype, _color, _alpha, _rgbcolor) ==
    IF shadertype = "Diffuse"
    THEN << <<"Color", _color, _color, "RGB", _rgbcolor>> >>
    ELSE IF shadertype = "Glass"
    THEN << <<"IOR", "1.5", "1.5", "float", _rgbcolor>>,
            <<"Color", _color, _color, "RGB", _rgbcolor>> >>
    ELSE << <<"Diffuse.Color", _color, _color, "RGB", _rgbcolor>>,
            <<"Glass.IOR", "1.5", "1.5", "float", _rgbcolor>>,
            <<"Glass.Color", _color, _color, "RGB", _rgbcolor>>,
            <<"Transparency", _alpha, _alpha, "float", _rgbcolor>> >>

_build_fallback(C, color, doc) ==
    IF LruHit(C.fbk, FallbackKey(color))
    THEN Out(Get(C.fbk, FallbackKey(color)),
             [C EXCEPT !.fbk = LruTouch(C.fbk, FallbackKey(color))], TRUE,
             FallbackKey(color))
    ELSE LET indexError == color.k # "RGBA"     \* color[3] on a 3-tuple
             _color == IF indexError THEN "0.8, 0.8, 0.8" ELSE ColorText(color)
             _alpha == IF indexError THEN "0.0" ELSE FloatRepr(color.a)
             _rgbcolor == str2rgb(_color)
             alpha == float(_alpha)
         IN IF IsRaise(_rgbcolor) THEN Out(_rgbcolor, C, FALSE, FallbackKey(color))
            ELSE IF IsRaise(alpha) THEN Out(alpha, C, FALSE, FallbackKey(color))
            ELSE StoreFallback(color,
                     _build_standard(C, FallbackFamily(alpha.v),
                                     FallbackValues(FallbackFamily(alpha.v), _color,
                                                    _alpha, _rgbcolor),
                                     doc))

(***************************************************************************)
(* Material cards and the resolver.  A card (obj.Material) is a function   *)
(* from its keys to texts; a passthrough line is a sequence of tokens.     *)
(***************************************************************************)
Renderers == {"Povray", "Appleseed"}

\* f"{i:04}"
Fmt04(i) ==
    IF i < 10 THEN "000" \o ToString(i)
    ELSE IF i < 100 THEN "00" \o ToString(i)
    ELSE IF i < 1000 THEN "0" \o ToString(i)
    ELSE ToString(i)

PassthroughKey(renderer, i) == "Render." \o renderer \o "." \o Fmt04(i)

\* range(1, 9999)
RangeStart == 1
RangeStop == 9999
PassthroughRange == RangeStart..(RangeStop - 1)

\* passthrough_keys(renderer), computed once per renderer as lru_cache does.
passthrough_keys ==
    [r \in Renderers |-> {PassthroughKey(r, i) : i \in PassthroughRange}]

\* The line numbers the cards of the model use.
CardLines == {1, 2, 9998, 9999}

\* sorted(common_keys): the keys are zero padded to one width, so their order
\* is the order of their numbers.
RECURSIVE SortedLines(_, _, _)
SortedLines(mat, renderer, nums) ==
    IF nums = {} THEN << >>
    ELSE LET i == CHOOSE n \in nums : \A m \in nums : n <= m
         IN <<mat[PassthroughKey(renderer, i)]>> \o SortedLines(mat, renderer, nums \ {i})

\* A validity test that takes any object of the document for a material.
is_valid_material_AnyObject(obj) == obj.k = "obj"

is_valid_material(obj) ==
    /\ obj.k = "obj"
    /\ obj.isMaterialObject
    /\ obj.hasMaterialDict

DictGet(mat, key, default) == IF key \in DOMAIN mat THEN mat[key] ELSE default

\* A variant of FindFather over every object of the document, material or not.
FindFather_AnyObject(objects, father_name) ==
    LET found == {i \in 1..Len(objects) :
                     DictGet(objects[i].Material, "Name", "") = father_name}
    IN IF found = {} THEN 0 ELSE CHOOSE i \in found : \A j \in found : i <= j

\* A variant of FindFather that gives the first object of the document when
\* no material has the name.
FindFather_OrFirst(objects, father_name) ==
    LET found == {i \in 1..Len(objects) :
                     /\ is_valid_material(objects[i])
                     /\ DictGet(objects[i].Material, "Name", "") = father_name}
    IN IF found = {} THEN 1 ELSE CHOOSE i \in found : \A j \in found : i <= j

\* next(m for m in materials if m.Material.get("Name", "") == father_name):
\* the index of the first such object, 0 for StopIteration.
FindFather(objects, father_name) ==
    LET found == {i \in 1..Len(objects) :
                     /\ is_valid_material(objects[i])
                     /\ DictGet(objects[i].Material, "Name", "") = father_name}
    IN IF found = {} THEN 0 ELSE CHOOSE i \in found : \A j \in found : i <= j

\* A Coin-like fallback that does not read Transparency.
CoinFallback_Opaque(C, mat, default_color, doc) ==
    LET diffusecolor == IF "DiffuseColor" \in DOMAIN mat
                        THEN str2rgb(mat["DiffuseColor"])
                        ELSE Raise("KeyError")
        caught == IsRaise(diffusecolor) /\ diffusecolor.exc \in {"KeyError", "TypeError"}
    IN IF IsRaise(diffusecolor) /\ ~caught THEN Out(diffusecolor, C, FALSE, None)
       ELSE _build_fallback(C,
                            IF caught THEN default_color
                            ELSE RGBA(diffusecolor.r, diffusecolor.g, diffusecolor.b, 0),
                            doc)

\* The Coin-like fallback of get_rendering_material (lines 512-525).
CoinFallback(C, mat, default_color, doc) ==
    LET diffusecolor == IF "DiffuseColor" \in DOMAIN mat
                        THEN str2rgb(mat["DiffuseColor"])
                        ELSE Raise("KeyError")
        caught == IsRaise(diffusecolor) /\ diffusecolor.exc \in {"KeyError", "TypeError"}
        transparency == float(DictGet(mat, "Transparency", "0"))
    IN IF IsRaise(diffusecolor) /\ ~caught THEN Out(diffusecolor, C, FALSE, None)
       ELSE IF ~caught /\ IsRaise(transparency) THEN Out(transparency, C, FALSE, None)
       ELSE _build_fallback(C,
                            IF caught THEN default_color
                            ELSE RGBA(diffusecolor.r, diffusecolor.g, diffusecolor.b,
                                      transparency.v \div 100),
                            doc)

\* A lookup of the family's parameters that lets the KeyError of an unknown
\* family out.
LookupFamily_Uncaught(shadertype) ==
    IF shadertype \in DOMAIN STD_MATERIALS_PARAMETERS
    THEN [k |-> "params", params |-> STD_MATERIALS_PARAMETERS[shadertype]]
    ELSE Raise("KeyError")

\* try: params = STD_MATERIALS_PARAMETERS[shadertype]; except KeyError: the
\* unknown family is logged and the resolver goes on (None here).
LookupFamily(shadertype) ==
    IF shadertype \in DOMAIN STD_MATERIALS_PARAMETERS
    THEN [k |-> "params", params |-> STD_MATERIALS_PARAMETERS[shadertype]]
    ELSE None

\* get_rendering_material.  objects and doc are App.ActiveDocument's objects
\* and textures; depth is the depth of the recursion on the father.
RECURSIVE get_rendering_material(_, _, _, _, _, _, _)
get_rendering_material(C, material, renderer, default_color, objects, doc, depth) ==
    IF depth >= RecursionLimit THEN Out(Raise("RecursionError"), C, FALSE, None)
    ELSE IF ~is_valid_material(material) THEN _build_fallback(C, default_color, doc)
    ELSE
    LET mat == material.Material
        common_keys == {key \in DOMAIN mat : key \in passthrough_keys[renderer]}
        shadertype == DictGet(mat, "Render.Type", "")
        father_name == DictGet(mat, "Father", "")
        father == FindFather(objects, father_name)
        family == IF shadertype # "" THEN LookupFamily(shadertype) ELSE None
    IN IF common_keys # {}
       THEN LET nums == {i \in CardLines : PassthroughKey(renderer, i) \in common_keys}
            IN _build_passthrough(C, SortedLines(mat, renderer, nums), renderer,
                                  default_color)
       ELSE IF IsRaise(family) THEN Out(family, C, FALSE, None)
       ELSE IF family # None
       THEN LET params == family.params
                values == [i \in 1..Len(params) |->
                             << params[i].name,
                                DictGet(mat, "Render." \o shadertype \o "."
                                             \o params[i].name, "None"),
                                params[i].default,
                                params[i].type,
                                default_color >>]
            IN _build_standard(C, shadertype, values, doc)
       ELSE IF father_name # "" /\ father # 0
       THEN get_rendering_material(C, objects[father], renderer, default_color,
                                   objects, doc, depth + 1)
       ELSE CoinFallback(C, mat, default_color, doc)

(***************************************************************************)
(* Texts of the scene description language: sequences of tokens, a number  *)
(* or a name being a token of its own.                                     *)
(***************************************************************************)
Text(tokens) == [k |-> "text", s |-> tokens]

\* getattr(obj, name) on the objects of the model.  A MaterialValues has the
\* attributes its class defines and its __init__ sets, and no other.
Attr(obj, name) ==
    CASE obj.k = "MaterialValues" ->
           (CASE name = "default_color" -> obj.material.default_color
              [] name = "shadertype" -> PyStr(obj.material.shadertype)
              [] name = "material" -> obj.material
              [] name = "shader" -> Node(obj.material.shader)
              [] name = "objname" -> PyStr(obj.objname)
              [] OTHER -> Raise("AttributeError"))
      [] obj.k = "RenderMaterial" ->
           (CASE name = shadername(obj) -> Node(obj.shader)
              [] name = "shader" -> Node(obj.shader)
              [] name = "default_color" -> obj.default_color
              [] name = "shadertype" -> PyStr(obj.shadertype)
              [] OTHER -> Raise("AttributeError"))
      [] obj.k = "node" ->
           IF HasKey(obj.items, name) THEN Get(obj.items, name)
           ELSE Raise("AttributeError")
      [] obj.k \in {"RGB", "RGBA"} ->
           (CASE name = "r" -> PyFloat(obj.r)
              [] name = "g" -> PyFloat(obj.g)
              [] name = "b" -> PyFloat(obj.b)
              [] name = "a" /\ obj.k = "RGBA" -> PyFloat(obj.a)
              [] OTHER -> Raise("AttributeError"))
      [] obj.k = "tex" ->
           (CASE name = "name" -> PyStr(obj.name)
              [] name = "subname" -> PyStr(obj.subname)
              [] name = "file" -> PyStr(obj.file)
              [] OTHER -> Raise("AttributeError"))
      [] OTHER -> Raise("AttributeError")

\* obj.a.b.c: the first failing access raises.
RECURSIVE Path(_, _)
Path(obj, names) ==
    IF Len(names) = 0 THEN obj
    ELSE IF IsRaise(Attr(obj, names[1])) THEN Attr(obj, names[1])
    ELSE Path(Attr(obj, names[1]), Tail(names))

\* format(value): the tokens of a value inside a text.
Tokens(v) ==
    CASE v.k = "float" -> <<FloatRepr(v.v)>>
      [] v.k = "str" -> <<v.s>>
      [] v.k = "text" -> v.s
      [] v.k = "None" -> <<"None">>
      [] v.k = "node" -> <<"namespace(...)">>
      [] v.k = "RGB" -> <<"RGB(r=", FloatRepr(v.r), ", g=", FloatRepr(v.g), ", b=",
                          FloatRepr(v.b), ")">>
      [] v.k = "RGBA" -> <<"RGBA(r=", FloatRepr(v.r), ", g=", FloatRepr(v.g), ", b=",
                           FloatRepr(v.b), ", a=", FloatRepr(v.a), ")">>
      [] OTHER -> <<"RendererTexture(...)">>

\* The first exception of a sequence of evaluated arguments, None if none.
FirstRaise(args) ==
    IF \E i \in 1..Len(args) : IsRaise(args[i])
    THEN args[CHOOSE i \in 1..Len(args) :
                 IsRaise(args[i]) /\ \A j \in 1..(i - 1) : ~IsRaise(args[j])]
    ELSE None

(***************************************************************************)
(* POV-Ray plugin: the writer callbacks.                                   *)
(***************************************************************************)
ValSnippetTypes == {"RGB", "float", "node", "RGBA", "texonly", "str"}

\* A write_value that writes a color by its first channel only.
_write_value_OneChannel(proptype, propvalue) ==
    IF proptype = "RGB" THEN Text(<<"rgb ", FloatRepr(propvalue.r)>>)
    ELSE Text(Tokens(propvalue))

\* VALSNIPPETS[proptype].format(val=propvalue)
_write_value(proptype, propvalue) ==
    IF proptype \notin ValSnippetTypes THEN Raise("KeyError")
    ELSE CASE proptype = "node" -> Text(<< >>)
           [] proptype = "RGB" ->
                LET c == <<Attr(propvalue, "r"), Attr(propvalue, "g"),
                           Attr(propvalue, "b")>>
                IN IF FirstRaise(c) # None THEN FirstRaise(c)
                   ELSE Text(<<"rgb <", FloatRepr(c[1].v), ", ", FloatRepr(c[2].v), ", ",
                               FloatRepr(c[3].v), ">">>)
           [] proptype = "RGBA" ->
                LET c == <<Attr(propvalue, "r"), Attr(propvalue, "g"),
                           Attr(propvalue, "b"), Attr(propvalue, "a")>>
                IN IF FirstRaise(c) # None THEN FirstRaise(c)
                   ELSE Text(<<FloatRepr(c[1].v), " ", FloatRepr(c[2].v), " ",
                               FloatRepr(c[3].v), " ", FloatRepr(c[4].v)>>)
           [] OTHER -> Text(Tokens(propvalue))

\* The texture name and the (empty) texture declaration.
_write_texture(objname, propname, proptype, propvalue) ==
    [texname |-> objname \o "_" \o propvalue.name \o "_" \o propvalue.subname,
     texture |-> Text(<< >>)]

_write_texref(texname, propname, proptype, propvalue) ==
    IF propname \in {"bump", "normal", "displacement"} THEN Text(<< >>)
    ELSE Text(<<"image_map { ", "png", " \"", propvalue.file, "\" gamma ",
                IF proptype = "RGB" THEN "srgb" ELSE "1.0", " }">>)

(***************************************************************************)
(* MaterialValues.  The writer callbacks are arguments of its __init__:    *)
(* "Povray" names the three callbacks write_mesh of the POV-Ray plugin     *)
(* passes, "Plain" those of a caller whose write_texture declares the      *)
(* texture under the property's name, whose write_value gives the plain    *)
(* text of the value and whose write_texref returns nothing (None).  calls *)
(* logs the callbacks in the order called.                                 *)
(***************************************************************************)
Callbacks == {"Povray", "Plain"}

\* write_texture_fun(objname=, propname=, proptype=, propvalue=)
write_texture_fun(callbacks, objname, propname, proptype, propvalue) ==
    IF callbacks = "Povray" THEN _write_texture(objname, propname, proptype, propvalue)
    ELSE [texname |-> objname \o propname,
          texture |-> Text(<<"texture ", objname \o propname>>)]

\* write_value_fun(proptype=, propvalue=)
write_value_fun(callbacks, proptype, propvalue) ==
    IF callbacks = "Povray" THEN _write_value(proptype, propvalue)
    ELSE Text(Tokens(propvalue))

\* write_texref_fun(texname=, propname=, proptype=, propvalue=)
write_texref_fun(callbacks, texname, propname, proptype, propvalue) ==
    IF callbacks = "Povray" THEN _write_texref(texname, propname, proptype, propvalue)
    ELSE None

Called(fn, propname, arg) == [fn |-> fn, propname |-> propname, arg |-> arg]

\* The loop of MaterialValues.__init__ from the i-th property on.
RECURSIVE MaterialValuesLoop(_, _, _)

\* A variant of TextureStep that asks for the reference before the texture
\* and declares the texture twice.
TextureStep_Twice(self, items, i, tex) ==
    MaterialValuesLoop(
        [self EXCEPT
           !.textures = @ \o <<tex.texture, tex.texture>>,
           !.values = Put(@, items[i].key,
                          write_texref_fun(self.callbacks, tex.texname, items[i].key,
                                           get_param_type(self.material, items[i].key),
                                           items[i].val)),
           !.calls = @ \o <<Called("write_texref", items[i].key, tex.texname),
                            Called("write_texture", items[i].key, ""),
                            Called("write_texture", items[i].key, "")>>],
        items, i + 1)

\* A texture: tex is what write_texture_fun gave.
TextureStep(self, items, i, tex) ==
    MaterialValuesLoop(
        [self EXCEPT
           !.textures = Append(@, tex.texture),
           !.values = Put(@, items[i].key,
                          write_texref_fun(self.callbacks, tex.texname, items[i].key,
                                           get_param_type(self.material, items[i].key),
                                           items[i].val)),
           !.calls = @ \o <<Called("write_texture", items[i].key, ""),
                            Called("write_texref", items[i].key, tex.texname)>>],
        items, i + 1)

\* A variant of ValueStep that writes the text of the value back into the
\* material.
ValueStep_WriteBack(self, items, i, value) ==
    IF IsRaise(value) THEN value
    ELSE MaterialValuesLoop(
             [self EXCEPT
                !.values = Put(@, items[i].key, value),
                !.calls = Append(@, Called("write_value", items[i].key, "")),
                !.material = [@ EXCEPT !.shader = Put(@, items[i].key, value)]],
             items, i + 1)

\* A plain value: value is what write_value_fun gave.
ValueStep(self, items, i, value) ==
    IF IsRaise(value) THEN value
    ELSE MaterialValuesLoop(
             [self EXCEPT
                !.values = Put(@, items[i].key, value),
                !.calls = Append(@, Called("write_value", items[i].key, ""))],
             items, i + 1)

MaterialValuesLoop(self, items, i) ==
    IF i > Len(items) THEN self
    ELSE LET propkey == items[i].key
             propvalue == items[i].val
             proptype == get_param_type(self.material, propkey)
         IN IF propvalue = None THEN MaterialValuesLoop(self, items, i + 1)
            ELSE IF proptype = "KeyError" THEN Raise("KeyError")
            ELSE IF IsTexture(propvalue)
            THEN TextureStep(self, items, i,
                             write_texture_fun(self.callbacks, self.objname, propkey,
                                               proptype, propvalue))
            ELSE ValueStep(self, items, i,
                           write_value_fun(self.callbacks, proptype, propvalue))

\* MaterialValues.__init__
MaterialValues(objname, material, callbacks) ==
    MaterialValuesLoop([k |-> "MaterialValues", material |-> material,
                        objname |-> objname, callbacks |-> callbacks,
                        values |-> << >>, textures |-> << >>, calls |-> << >>],
                       shaderproperties(material), 1)

get_material_values(self, objname, callbacks) == MaterialValues(objname, self, callbacks)

\* RenderMaterial.getmixedsubmat: a new RenderMaterial(subname) whose attribute
\* subname is the namespace of that name in the node, and whose _partypes is
\* the dictionary of self.  subname is taken as given, not lowered: the
\* attribute is the shader of the result when subname is lower case (in the
\* model it then names a namespace of the node), another attribute otherwise.
getmixedsubmat(self, subname, nodename) ==
    LET node == Attr(self, nodename)
        submatsrc == IF IsRaise(node) THEN node ELSE Attr(node, subname)
    IN IF IsRaise(submatsrc) THEN submatsrc
       ELSE [RenderMaterial(subname) EXCEPT
                !.shader = IF subname = lower(subname) /\ submatsrc.k = "node"
                           THEN submatsrc.items ELSE << >>,
                !.partypes = self.partypes]

\* MaterialValues.getmixedsubmat: the values of the sub-material, for the same
\* object and the same callbacks.
MaterialValues_getmixedsubmat(self, submat) ==
    LET sub == getmixedsubmat(self.material, submat, "mixed")
    IN IF IsRaise(sub) THEN sub ELSE MaterialValues(self.objname, sub, self.callbacks)

\* MaterialValues.has_bump, has_normal, has_displacement
has_bump(self) == HasKey(self.values, "bump") /\ Get(self.values, "bump") # None

has_normal(self) == HasKey(self.values, "normal") /\ Get(self.values, "normal") # None

has_displacement(self) ==
    HasKey(self.values, "displacement") /\ Get(self.values, "displacement") # None

\* MaterialValues.__getitem__
GetItem(self, propname) ==
    IF HasKey(self.values, propname) THEN Get(self.values, propname)
    ELSE Raise("KeyError")

(***************************************************************************)
(* POV-Ray plugin: the material generators.  material is what write_mesh   *)
(* hands to _write_material: a MaterialValues.                             *)
(***************************************************************************)
\* textwrap.indent(text, "    ")
RECURSIVE Indent(_, _)
Indent(tokens, atStart) ==
    IF Len(tokens) = 0 THEN << >>
    ELSE (IF atStart /\ tokens[1] # "\n" THEN <<"    ">> ELSE << >>)
         \o <<tokens[1]>> \o Indent(Tail(tokens), tokens[1] = "\n")

\* str.format(n=name, c=color) on a converted passthrough text.
RECURSIVE FormatPassthrough(_, _, _)
FormatPassthrough(tokens, n, c) ==
    IF Len(tokens) = 0 THEN << >>
    ELSE LET t == tokens[1]
             out == CASE t = "{{" -> <<"{">>
                      [] t = "}}" -> <<"}">>
                      [] t = "{n}" -> <<n>>
                      [] t = "{c.r}" -> Tokens(Attr(c, "r"))
                      [] t = "{c.g}" -> Tokens(Attr(c, "g"))
                      [] t = "{c.b}" -> Tokens(Attr(c, "b"))
                      [] OTHER -> <<t>>
         IN out \o FormatPassthrough(Tail(tokens), n, c)

_write_material_passthrough(name, material) ==
    LET renderer == Path(material, <<"passthrough", "renderer">>)
        string == Path(material, <<"passthrough", "string">>)
        c == Attr(material, "default_color")
    IN IF IsRaise(renderer) THEN renderer
       ELSE IF renderer # PyStr("Povray") THEN Raise("AssertionError")
       ELSE IF FirstRaise(<<string, c>>) # None THEN FirstRaise(<<string, c>>)
       ELSE Text(FormatPassthrough(Indent(string.s, TRUE), name, c))

\* The channels of a color argument of str.format: {c.r}, {c.g}, {c.b}.
Channels(c) == <<Attr(c, "r"), Attr(c, "g"), Attr(c, "b")>>

_write_material_glass(name, material) ==
    LET c == Path(material, <<"glass", "color">>)
        i == Path(material, <<"glass", "ior">>)
    IN IF FirstRaise(<<c, i>>) # None THEN FirstRaise(<<c, i>>)
       ELSE IF FirstRaise(Channels(c)) # None THEN FirstRaise(Channels(c))
       ELSE Text(<<"texture { pigment {color rgbf <">> \o Tokens(Attr(c, "r"))
                 \o <<", ">> \o Tokens(Attr(c, "g")) \o <<", ">> \o Tokens(Attr(c, "b"))
                 \o <<", 0.7>} finish { specular 1 roughness 0.001 ambient 0 diffuse 0 reflection 0.1 } } interior { ior ">>
                 \o Tokens(i) \o <<" caustics 1 }">>)

DisneyNames ==
    <<"basecolor", "metallic", "specular", "speculartint", "roughness",
      "anisotropic", "sheen", "sheentint", "clearcoat", "clearcoatgloss">>

_write_material_disney(name, material) ==
    LET subsurface == Path(material, <<"disney", "subsurface">>)
        args == [j \in 1..Len(DisneyNames) |-> Path(material, <<"disney", DisneyNames[j]>>)]
        c == args[1]
    IN IF IsRaise(subsurface) THEN subsurface
       ELSE IF subsurface.k # "float" THEN Raise("TypeError")
       ELSE IF FirstRaise(args) # None THEN FirstRaise(args)
       ELSE IF FirstRaise(Channels(c)) # None THEN FirstRaise(Channels(c))
       ELSE Text(<<"texture { pigment { color rgb <">> \o Tokens(Attr(c, "r"))
                 \o <<", ">> \o Tokens(Attr(c, "g")) \o <<", ">> \o Tokens(Attr(c, "b"))
                 \o <<"> } finish { diffuse albedo 0.8 specular ">> \o Tokens(args[3])
                 \o <<" roughness ">> \o Tokens(args[5])
                 \o <<" conserve_energy reflection { ">> \o Tokens(args[3])
                 \o <<" metallic } ">>
                 \o (IF subsurface.v > 0
                     THEN <<"subsurface { translucency ">> \o Tokens(subsurface) \o <<" }">>
                     ELSE << >>)
                 \o <<" irid { ">> \o Tokens(args[10]) \o <<" } } }">>)

_write_material_diffuse(name, matval) ==
    LET color == IF matval.k = "MaterialValues" THEN GetItem(matval, "color")
                 ELSE Raise("TypeError")
    IN IF IsRaise(color) THEN color
       ELSE Text(<<"texture { pigment { ">> \o Tokens(color)
                 \o <<" } finish { diffuse albedo 1 } }">>)

_write_material_mixed(name, material) ==
    LET t == Path(material, <<"mixed", "transparency">>)
        c == Path(material, <<"mixed", "diffuse", "color">>)
        g == Path(material, <<"mixed", "glass", "color">>)
        i == Path(material, <<"mixed", "glass", "ior">>)
    IN IF FirstRaise(<<t, c, g, i>>) # None THEN FirstRaise(<<t, c, g, i>>)
       ELSE IF FirstRaise(Channels(g) \o Channels(c)) # None
       THEN FirstRaise(Channels(g) \o Channels(c))
       ELSE Text(<<"texture { pigment { rgbf <">> \o Tokens(Attr(g, "r"))
                 \o <<", ">> \o Tokens(Attr(g, "g")) \o <<", ">> \o Tokens(Attr(g, "b"))
                 \o <<", 0.7> } finish { phong 1 roughness 0.001 ambient 0 diffuse 0 reflection 0.1 } } interior {ior ">>
                 \o Tokens(i) \o <<" caustics 1} texture { pigment { rgbt <">>
                 \o Tokens(Attr(c, "r")) \o <<", ">> \o Tokens(Attr(c, "g")) \o <<", ">>
                 \o Tokens(Attr(c, "b")) \o <<", ">> \o Tokens(t)
                 \o <<"> } finish { diffuse 1 } }">>)

_write_material_carpaint(name, material) ==
    LET c == Path(material, <<"carpaint", "basecolor">>)
    IN IF IsRaise(c) THEN c
       ELSE IF FirstRaise(Channels(c)) # None THEN FirstRaise(Channels(c))
       ELSE Text(<<"texture { pigment { rgb <">> \o Tokens(Attr(c, "r"))
                 \o <<", ">> \o Tokens(Attr(c, "g")) \o <<", ">> \o Tokens(Attr(c, "b"))
                 \o <<"> } finish { diffuse albedo 0.7 phong albedo 0 specular albedo 0.6 roughness 0.001 reflection { 0.05 } irid { 0.5 } conserve_energy } }">>)

\* The flat diffuse texture of the fallback generator, for the channels given.
FallbackText(red, grn, blu) ==
    Text(<<"texture { pigment {rgb <", red, ", ", grn, ", ", blu,
           ">} finish { diffuse albedo 1 } }">>)

\* The argument is named material and read as material.default_color.r/g/b;
\* AttributeError, ValueError, TypeError and AssertionError give white.
_write_material_fallback(name, material) ==
    LET c == Path(material, <<"default_color">>)
        ch == IF IsRaise(c) THEN <<c>> ELSE Channels(c)
    IN IF FirstRaise(ch) # None THEN FallbackText("1", "1", "1")
       ELSE IF \E j \in 1..3 : ch[j].v < 0 \/ ch[j].v > 100
       THEN FallbackText("1", "1", "1")
       ELSE FallbackText(FloatRepr(ch[1].v), FloatRepr(ch[2].v), FloatRepr(ch[3].v))

\* The keys of MATERIALS.
MATERIALS == {"Passthrough", "Glass", "Disney", "Diffuse", "Mixed", "Carpaint"}

\* MATERIALS[shadertype](name, material)
Generator(shadertype, name, material) ==
    CASE shadertype = "Passthrough" -> _write_material_passthrough(name, material)
      [] shadertype = "Glass" -> _write_material_glass(name, material)
      [] shadertype = "Disney" -> _write_material_disney(name, material)
      [] shadertype = "Diffuse" -> _write_material_diffuse(name, material)
      [] shadertype = "Mixed" -> _write_material_mixed(name, material)
      [] shadertype = "Carpaint" -> _write_material_carpaint(name, material)

\* What _write_material gives: the snippet (or the exception that leaves it),
\* whether a warning was printed, whether the fallback generator was used.
Written(snippet, warned, fallback) ==
    [snippet |-> snippet, warned |-> warned, fallback |-> fallback]

\* A variant of ExceptKeyError that catches nothing.
ExceptKeyError_Uncaught(name, material, snippet_mat) ==
    Written(snippet_mat, FALSE, FALSE)

\* _write_material: a KeyError, of the table lookup or of the generator
\* itself, is caught and answered with the fallback generator.
ExceptKeyError(name, material, snippet_mat) ==
    IF IsRaise(snippet_mat) /\ snippet_mat.exc = "KeyError"
    THEN Written(_write_material_fallback(name, Attr(material, "default_color")),
                 TRUE, TRUE)
    ELSE Written(snippet_mat, FALSE, FALSE)

_write_material(name, material) ==
    ExceptKeyError(name, material,
                   IF Attr(material, "shadertype").s \in MATERIALS
                   THEN Generator(Attr(material, "shadertype").s, name, material)
                   ELSE Raise("KeyError"))

\* The material part of write_mesh: the MaterialValues, then the snippet.
WriteMaterialOf(name, materialvalues) ==
    IF IsRaise(materialvalues)
    THEN [values |-> materialvalues, written |-> Written(materialvalues, FALSE, FALSE)]
    ELSE [values |-> materialvalues, written |-> _write_material(name, materialvalues)]

write_mesh(name, material) ==
    WriteMaterialOf(name \o "_", get_material_values(material, name \o "_", "Povray"))

(***************************************************************************)
(* The documents and the inputs of the model.                              *)
(***************************************************************************)
NoKeys == [x \in {} |-> ""]

Obj(card) == [k |-> "obj", isMaterialObject |-> TRUE, hasMaterialDict |-> TRUE,
              Material |-> card]

\* An object of the document that is not a material (a Part feature).
NotMaterial(card) == [k |-> "obj", isMaterialObject |-> FALSE,
                      hasMaterialDict |-> TRUE, Material |-> card]

FatherParts ==
    { NoKeys, "Father" :> "", "Father" :> "A", "Father" :> "B", "Father" :> "Z" }

PassParts ==
    { NoKeys,
      "Render.Povray.0001" :> <<"pigment ", "{", "%RED%", "}">>,
      ("Render.Povray.0002" :> <<"b">>) @@ ("Render.Povray.0001" :> <<"a">>),
      "Render.Povray.9998" :> <<"z">>,
      "Render.Povray.9999" :> <<"a">>,
      "Render.Appleseed.0001" :> <<"a">> }

LegacyParts ==
    { NoKeys,
      "DiffuseColor" :> "(0.8,0.8,0.8)",
      ("DiffuseColor" :> "(0.2,0.5,0.8)") @@ ("Transparency" :> "0"),
      ("DiffuseColor" :> "(0.8,0.8,0.8)") @@ ("Transparency" :> "50"),
      ("DiffuseColor" :> "(0.8,0.8,0.8)") @@ ("Transparency" :> "100"),
      ("DiffuseColor" :> "(0.8,0.8,0.8)") @@ ("Transparency" :> "abc"),
      "DiffuseColor" :> "(0.8,0.8)",
      "DiffuseColor" :> "abc",
      "Transparency" :> "50" }

GlassOk == ("Render.Type" :> "Glass") @@ ("Render.Glass.Color" :> "(1.0,0.0,0.0)")
               @@ ("Render.Glass.IOR" :> "1.5")

DisneyOk ==
    ("Render.Type" :> "Disney") @@ ("Render.Disney.Subsurface" :> "0.5")
        @@ ("Render.Disney.Metallic" :> "0.0") @@ ("Render.Disney.Specular" :> "0.0")
        @@ ("Render.Disney.SpecularTint" :> "0.0") @@ ("Render.Disney.Roughness" :> "0.2")
        @@ ("Render.Disney.Anisotropic" :> "0.0") @@ ("Render.Disney.Sheen" :> "0.0")
        @@ ("Render.Disney.SheenTint" :> "0.0") @@ ("Render.Disney.ClearCoat" :> "0.0")
        @@ ("Render.Disney.ClearCoatGloss" :> "0.0")

\* A family tag alone, one raw value per case of the casts, and whole cards.
TypeParts ==
    { NoKeys,
      "Render.Type" :> "Foo",
      "Render.Type" :> "",
      GlassOk,
      "Render.Type" :> "Glass",
      ("Render.Type" :> "Glass") @@ ("Render.Glass.IOR" :> "1.0"),
      ("Render.Type" :> "Glass") @@ ("Render.Glass.IOR" :> "abc"),
      ("Render.Type" :> "Glass") @@ ("Render.Glass.IOR" :> "Texture;T1:Diffuse"),
      ("Render.Type" :> "Glass") @@ ("Render.Glass.IOR" :> "Texture;T9:Diffuse"),
      ("Render.Type" :> "Glass") @@ ("Render.Glass.IOR" :> "1.5")
          @@ ("Render.Glass.Bump" :> "Texture;T1:Diffuse"),
      ("Render.Type" :> "Glass") @@ ("Render.Glass.IOR" :> "1.5")
          @@ ("Render.Glass.Color" :> "(0.8,0.8)"),
      ("Render.Type" :> "Glass") @@ ("Render.Glass.IOR" :> "1.5")
          @@ ("Render.Glass.Color" :> "abc"),
      ("Render.Type" :> "Glass") @@ ("Render.Glass.IOR" :> "1.5")
          @@ ("Render.Glass.Color" :> "Object"),
      ("Render.Type" :> "Glass") @@ ("Render.Glass.IOR" :> "1.5")
          @@ ("Render.Glass.Color" :> "Texture;T1:Diffuse"),
      "Render.Type" :> "Diffuse",
      ("Render.Type" :> "Diffuse") @@ ("Render.Diffuse.Color" :> "(0.2,0.5,0.8)"),
      ("Render.Type" :> "Diffuse") @@ ("Render.Diffuse.Color" :> "(0.8,0.8,0.8)")
          @@ ("Render.Diffuse.Bump" :> "0.5"),
      "Render.Type" :> "Carpaint",
      ("Render.Type" :> "Glass") @@ ("Render.Glass.IOR" :> "1.5")
          @@ ("Render.Glass.Color" :> "0.5;Object"),
      ("Render.Type" :> "Glass") @@ ("Render.Glass.IOR" :> "Texture;T1:Diffuse")
          @@ ("Render.Glass.Bump" :> "Texture;T1:Diffuse"),
      ("Render.Type" :> "Glass") @@ ("Render.Glass.Color" :> "Texture;T1:Diffuse")
          @@ ("Render.Glass.IOR" :> "Texture;T1:Diffuse")
          @@ ("Render.Glass.Bump" :> "Texture;T1:Diffuse"),
      "Render.Type" :> "Disney",
      DisneyOk,
      DisneyOk @@ ("Render.Disney.Normal" :> "Texture;T1:Diffuse")
          @@ ("Render.Disney.Displacement" :> "Texture;T1:Diffuse"),
      "Render.Type" :> "Mixed",
      ("Render.Type" :> "Mixed") @@ ("Render.Mixed.Glass.IOR" :> "1.5")
          @@ ("Render.Mixed.Transparency" :> "0.2") }

RecognisedParts == {t \in TypeParts : "Render.Type" \in DOMAIN t
                                      /\ t["Render.Type"] \in DOMAIN STD_MATERIALS_PARAMETERS}

\* The cards of the first material: every kind of passthrough block against
\* some family tags, fathers and legacy colors; every family part alone; and
\* every father and legacy part for a card with no recognised family.
CardsA ==
    { p @@ t @@ f @@ l :
        p \in PassParts, t \in {NoKeys, "Render.Type" :> "Foo", GlassOk},
        f \in {NoKeys, "Father" :> "B"},
        l \in {NoKeys, "DiffuseColor" :> "(0.8,0.8,0.8)"} }
    \cup TypeParts
    \cup { t @@ f @@ l :
             t \in {NoKeys, "Render.Type" :> "Foo", "Render.Type" :> ""},
             f \in FatherParts, l \in LegacyParts }

\* The cards of the second material.
CardsB ==
    { NoKeys, GlassOk, "Render.Type" :> "Glass",
      "Render.Type" :> "Diffuse",
      "Father" :> "A",
      ("Father" :> "A") @@ ("DiffuseColor" :> "(0.8,0.8,0.8)"),
      ("DiffuseColor" :> "(0.8,0.8,0.8)") @@ ("Transparency" :> "50"),
      "Render.Povray.0001" :> <<"%NAME%">> }

\* A document: material A, an object named B that is no material, material B.
Document(a, b) ==
    << Obj(("Name" :> "A") @@ a),
       NotMaterial(("Name" :> "B") @@ GlassOk),
       Obj(("Name" :> "B") @@ b) >>

WideDocuments == {Document(a, b) : a \in CardsA, b \in CardsB}

\* The caller's default colors: opaque, half and fully transparent RGBA, and
\* a color of three components only.
DefaultColors ==
    { RGBA(80, 80, 80, 0), RGBA(20, 50, 80, 50), RGBA(80, 80, 80, 100),
      RGB(100, 0, 0) }

\* Materials a caller builds without the resolver: families the POV-Ray table
\* does not hold (with and without a color of their own), the lower case
\* family getmixedsubmat makes, and a Diffuse material with no color.
ForeignMaterials ==
    { RenderMaterial("Foo"),
      [setshaderparam(RenderMaterial("Foo"), "Color", RGB(20, 50, 80), "RGB")
          EXCEPT !.default_color = RGB(20, 50, 80)],
      setshaderparam(RenderMaterial("diffuse"), "color", RGB(20, 50, 80), "RGB"),
      setshaderparam(RenderMaterial("Diffuse"), "Bump", None, "texonly") }

\* The documents of the longer behaviours.
SeqCardsA ==
    { GlassOk,
      ("Render.Type" :> "Glass") @@ ("Render.Glass.IOR" :> "1.5")
          @@ ("Render.Glass.Color" :> "Texture;T1:Diffuse"),
      "Father" :> "B",
      ("DiffuseColor" :> "(0.8,0.8,0.8)") @@ ("Transparency" :> "50"),
      "Render.Povray.0001" :> <<"pigment ", "{", "%RED%", "}">> }

SeqCardsB == { "Father" :> "A", "Render.Type" :> "Diffuse" }

SeqDocuments == {Document(a, b) : a \in SeqCardsA, b \in SeqCardsB}

\* The scale of a texture object.
Scales == {1, 2}

(***************************************************************************)
(* The state machine.                                                      *)
(***************************************************************************)
CachesNow == Caches(cacheStandard, cachePassthrough, cacheFallback, cacheConvert)

SetCaches(C) ==
    /\ cacheStandard' = C.std
    /\ cachePassthrough' = C.pas
    /\ cacheFallback' = C.fbk
    /\ cacheConvert' = C.cnv

\* The record of an operation; the fields an operation has no use for are None.
Last(op, obj, renderer, default_color, material, res, hit, again) ==
    [op |-> op, obj |-> obj, renderer |-> renderer, default_color |-> default_color,
     material |-> material, res |-> res, hit |-> hit, again |-> again]

NoOp == Last("none", 0, "", None, None, None, FALSE, FALSE)

\* The module was just loaded (line 989 clears the caches).
InitState(docs, n) ==
    /\ materials \in docs
    /\ textures = [t \in {"T1"} |-> 1]
    /\ docChanged = FALSE
    /\ cacheStandard = << >>
    /\ cachePassthrough = << >>
    /\ cacheFallback = << >>
    /\ cacheConvert = << >>
    /\ built = {}
    /\ last = NoOp
    /\ ncalls = 0
    /\ budget = n

\* The material argument of a call: None, or an object of the document.
Argument(i) == IF i = 0 THEN None ELSE materials[i]

\* A call of get_rendering_material by the renderer handler.
GetRenderingMaterial(i, renderer, default_color) ==
    /\ ncalls < budget
    /\ \E out \in {get_rendering_material(CachesNow, Argument(i), renderer,
                                           default_color, materials, textures, 0)} :
          /\ SetCaches(out.C)
          /\ last' = Last("get_rendering_material", i, renderer, default_color,
                          None, out.res, out.hit, out.key \in built)
          /\ built' = IF IsRaise(out.res) THEN built ELSE built \cup {out.key}
    /\ ncalls' = ncalls + 1
    /\ UNCHANGED <<materials, textures, docChanged, budget>>

\* A clear() that leaves the cache of _build_standard as it is.
Clear_KeepStandard ==
    /\ ncalls < budget
    /\ cachePassthrough' = << >>
    /\ cacheFallback' = << >>
    /\ cacheConvert' = << >>
    /\ last' = Last("clear", 0, "", None, None, None, FALSE, FALSE)
    /\ ncalls' = ncalls + 1
    /\ UNCHANGED <<materials, textures, docChanged, cacheStandard, built, budget>>

\* clear()
Clear ==
    /\ ncalls < budget
    /\ SetCaches(EmptyCaches)
    /\ last' = Last("clear", 0, "", None, None, None, FALSE, FALSE)
    /\ ncalls' = ncalls + 1
    /\ UNCHANGED <<materials, textures, docChanged, built, budget>>

\* The user edits a texture object of the document.
ModifyTexture(name, scale) ==
    /\ ncalls < budget
    /\ textures[name] # scale
    /\ textures' = [textures EXCEPT ![name] = scale]
    /\ docChanged' = TRUE
    /\ last' = Last("modify", 0, "", None, None, None, FALSE, FALSE)
    /\ ncalls' = ncalls + 1
    /\ UNCHANGED <<materials, cacheStandard, cachePassthrough, cacheFallback,
                   cacheConvert, built, budget>>

\* The renderer handler writes the object with the material just resolved.
WriteMeshResolved ==
    /\ last.op = "get_rendering_material"
    /\ ~IsRaise(last.res)
    /\ last' = Last("write_mesh", last.obj, last.renderer, last.default_color,
                    last.res, write_mesh("Box", last.res), FALSE, FALSE)
    /\ UNCHANGED <<materials, textures, docChanged, cacheStandard, cachePassthrough,
                   cacheFallback, cacheConvert, built, ncalls, budget>>

\* A renderer plugin asks for the values of the material just resolved, with
\* callbacks of its own.
GetMaterialValuesResolved(callbacks) ==
    /\ last.op = "get_rendering_material"
    /\ ~IsRaise(last.res)
    /\ last' = Last("get_material_values", last.obj, last.renderer, last.default_color,
                    last.res, get_material_values(last.res, "Box", callbacks),
                    FALSE, FALSE)
    /\ UNCHANGED <<materials, textures, docChanged, cacheStandard, cachePassthrough,
                   cacheFallback, cacheConvert, built, ncalls, budget>>

\* The names a plugin asks a sub-material by.
SubNames == {"diffuse", "glass", "Diffuse"}

\* A renderer plugin projects a sub-material of the Mixed material just
\* resolved.
GetMixedSubmatResolved(subname) ==
    /\ last.op = "get_rendering_material"
    /\ ~IsRaise(last.res)
    /\ last.res.shadertype = "Mixed"
    /\ last' = Last("getmixedsubmat", last.obj, last.renderer, last.default_color,
                    last.res, getmixedsubmat(last.res, subname, "mixed"), FALSE, FALSE)
    /\ UNCHANGED <<materials, textures, docChanged, cacheStandard, cachePassthrough,
                   cacheFallback, cacheConvert, built, ncalls, budget>>

\* A renderer plugin projects the values of a sub-material from the values
\* of a Mixed material it just got, and writes them with _write_material.
WriteSubmatValues(submat) ==
    /\ last.op = "get_material_values"
    /\ ~IsRaise(last.res)
    /\ last.res.callbacks = "Povray"
    /\ last.material.shadertype = "Mixed"
    /\ last' = Last("write_submat", last.obj, last.renderer, last.default_color,
                    last.res,
                    WriteMaterialOf(last.res.objname,
                                    MaterialValues_getmixedsubmat(last.res, submat)),
                    FALSE, FALSE)
    /\ UNCHANGED <<materials, textures, docChanged, cacheStandard, cachePassthrough,
                   cacheFallback, cacheConvert, built, ncalls, budget>>

\* A caller writes an object with a material it built itself.
WriteMeshForeign(material) ==
    /\ ncalls < budget
    /\ last' = Last("write_mesh", 0, "", None, material, write_mesh("Box", material),
                    FALSE, FALSE)
    /\ ncalls' = ncalls + 1
    /\ UNCHANGED <<materials, textures, docChanged, cacheStandard, cachePassthrough,
                   cacheFallback, cacheConvert, built, budget>>

\* The families, names and values of the materials a caller builds with
\* setshaderparam: simple and dotted names, two spellings of one name, two
\* names under one namespace, a name that is also the namespace of another
\* and the name of the attribute setshaderparam keeps in a namespace.
BuiltFamilies == {"Mixed", "Diffuse"}

ParamNames ==
    {"Color", "color", "Diffuse.Color", "Glass.Color", "Glass.IOR", "Diffuse", "Shader"}

ParamValues ==
    { <<RGB(20, 50, 80), "RGB">>, <<PyFloat(150), "float">>,
      <<PyStr("abc"), "string">>, <<RGBA(20, 50, 80, 50), "RGBA">> }

\* A caller makes a RenderMaterial of its own.  material holds the calls of
\* setshaderparam made on it so far, res the material.
NewRenderMaterial(shadertype) ==
    /\ ncalls < budget
    /\ last' = Last("RenderMaterial", 0, "", None, << >>, RenderMaterial(shadertype),
                    FALSE, FALSE)
    /\ ncalls' = ncalls + 1
    /\ UNCHANGED <<materials, textures, docChanged, cacheStandard, cachePassthrough,
                   cacheFallback, cacheConvert, built, budget>>

\* The caller sets a parameter of the material it is building.
SetShaderParam(name, value, paramtype) ==
    /\ last.op \in {"RenderMaterial", "setshaderparam"}
    /\ ~IsRaise(last.res)
    /\ Len(last.material) < MaxSets
    /\ last' = Last("setshaderparam", 0, "", None,
                    Append(last.material,
                           [key |-> name, val |-> value, type |-> paramtype]),
                    setshaderparam(last.res, name, value, paramtype), FALSE, FALSE)
    /\ UNCHANGED <<materials, textures, docChanged, cacheStandard, cachePassthrough,
                   cacheFallback, cacheConvert, built, ncalls, budget>>

Next ==
    \/ \E i \in 0..3, r \in Renderers, c \in DefaultColors : GetRenderingMaterial(i, r, c)
    \/ Clear
    \/ \E n \in DOMAIN textures, s \in Scales : ModifyTexture(n, s)
    \/ WriteMeshResolved
    \/ \E cb \in Callbacks : GetMaterialValuesResolved(cb)
    \/ \E sub \in SubNames : GetMixedSubmatResolved(sub)
    \/ \E sub \in SubNames : WriteSubmatValues(sub)
    \/ \E m \in ForeignMaterials : WriteMeshForeign(m)

\* A few documents, MaxCalls operations.
Init == InitState(SeqDocuments, MaxCalls)

Spec == Init /\ [][Next]_vars

\* Every document of the model, one operation.
InitWide == InitState(WideDocuments, 1)

SpecWide == InitWide /\ [][Next]_vars

\* One operation, and the materials a caller builds parameter by parameter.
NextParams ==
    \/ Next
    \/ \E t \in BuiltFamilies : NewRenderMaterial(t)
    \/ \E n \in ParamNames, v \in ParamValues : SetShaderParam(n, v[1], v[2])

\* A first material of each family, passthrough block, father and legacy
\* color, the second a Diffuse one.
ParamDocuments ==
    {Document(a, "Render.Type" :> "Diffuse") :
        a \in TypeParts \cup PassParts \cup FatherParts \cup LegacyParts}

InitParams == InitState(ParamDocuments, 1)

SpecParams == InitParams /\ [][NextParams]_vars

\* One document whose first card takes its color from the texture object, a
\* call more than MaxCalls: resolve, edit the texture, clear, resolve again.
FreshDocuments ==
    { Document(("Render.Type" :> "Glass") @@ ("Render.Glass.IOR" :> "1.5")
                   @@ ("Render.Glass.Color" :> "Texture;T1:Diffuse"),
               "Render.Type" :> "Diffuse") }

InitFresh == InitState(FreshDocuments, MaxCalls + 1)

SpecFresh == InitFresh /\ [][Next]_vars

(***************************************************************************)
(* Properties of the resolver.  They speak of the last operation: the      *)
(* document never changes its materials, so the card of the call is that   *)
(* of the object at last.obj.                                              *)
(***************************************************************************)
Resolved == last.op = "get_rendering_material"

\* The call was made on a valid material of the document.
ResolvedCard == Resolved /\ last.obj # 0 /\ is_valid_material(materials[last.obj])

CardOf(i) == materials[i].Material

\* The card holds a passthrough line for the renderer, lines 0001 to 9999.
HasPassthroughLine(card, renderer) ==
    \E i \in CardLines : i \in 1..9999 /\ PassthroughKey(renderer, i) \in DOMAIN card

\* The card holds a key the resolver takes for a passthrough line.
HasPassthroughKey(card, renderer) ==
    \E key \in DOMAIN card : key \in passthrough_keys[renderer]

HasRecognisedFamily(card) ==
    /\ "Render.Type" \in DOMAIN card
    /\ card["Render.Type"] \in DOMAIN STD_MATERIALS_PARAMETERS

\* An uncached resolver: the resolver on empty caches.
Uncached(material, renderer, default_color) ==
    get_rendering_material(EmptyCaches, material, renderer, default_color, materials,
                           textures, 0).res

\* C1: get_rendering_material is total: whatever the material source, it
\* returns a RenderMaterial and never raises.
C1_Total == Resolved => last.res.k = "RenderMaterial"

\* C2: a valid card that holds a passthrough line for the requested renderer
\* and a recognised Render.Type resolves to a Passthrough material.
C2_PassthroughFirst ==
    ( /\ ResolvedCard
      /\ HasPassthroughLine(CardOf(last.obj), last.renderer)
      /\ HasRecognisedFamily(CardOf(last.obj)) )
    => /\ last.res.k = "RenderMaterial"
       /\ last.res.shadertype = "Passthrough"

\* Material i climbs to its father: a valid card with no passthrough line, no
\* recognised family and a Father that names a valid material.
Climbs(i, renderer) ==
    /\ is_valid_material(materials[i])
    /\ ~HasPassthroughLine(CardOf(i), renderer)
    /\ ~HasRecognisedFamily(CardOf(i))
    /\ DictGet(CardOf(i), "Father", "") # ""
    /\ FindFather(materials, DictGet(CardOf(i), "Father", "")) # 0

FatherOf(i) == FindFather(materials, DictGet(CardOf(i), "Father", ""))

\* Material i is on a cycle of fathers of length one or two.
OnCycle(i, renderer) ==
    /\ Climbs(i, renderer)
    /\ \/ FatherOf(i) = i
       \/ /\ Climbs(FatherOf(i), renderer)
          /\ FatherOf(FatherOf(i)) = i

\* C3: on a cycle of fathers with no passthrough block and no recognised
\* family, get_rendering_material terminates and returns a material.
C3_CycleSafe ==
    (Resolved /\ last.obj # 0 /\ OnCycle(last.obj, last.renderer))
    => last.res.k = "RenderMaterial"

\* The valid materials of the document with this name.
MaterialsNamed(name) ==
    {j \in 1..Len(materials) :
        /\ is_valid_material(materials[j])
        /\ "Name" \in DOMAIN CardOf(j)
        /\ CardOf(j)["Name"] = name}

\* The call was made on a valid card with no passthrough key, no recognised
\* family and a Father that names a valid material of the document.
ResolvedThroughFather ==
    /\ ResolvedCard
    /\ ~HasPassthroughKey(CardOf(last.obj), last.renderer)
    /\ ~HasRecognisedFamily(CardOf(last.obj))
    /\ "Father" \in DOMAIN CardOf(last.obj)
    /\ CardOf(last.obj)["Father"] # ""
    /\ MaterialsNamed(CardOf(last.obj)["Father"]) # {}

\* C4: a valid material with no passthrough line and no recognised family,
\* whose Father names a valid material B of the document, resolves exactly as
\* B does for the same renderer and default color (the same material, or the
\* same exception when resolving B raises); its own DiffuseColor and
\* Transparency play no part.
C4_FatherChain ==
    ResolvedThroughFather
    => \A j \in MaterialsNamed(CardOf(last.obj)["Father"]) :
          (\A m \in MaterialsNamed(CardOf(last.obj)["Father"]) : j <= m)
          => last.res = Uncached(materials[j], last.renderer, last.default_color)

\* C4 happens: a card with a DiffuseColor of its own and a Father B resolved
\* to the Glass material of B's card.
C4_Witness ==
    /\ ResolvedThroughFather
    /\ last.obj = 1
    /\ CardOf(1)["Father"] = "B"
    /\ "DiffuseColor" \in DOMAIN CardOf(1)
    /\ last.res.k = "RenderMaterial"
    /\ last.res.shadertype = "Glass"

\* C5: over an unchanged document, whatever calls and clears came before, a
\* call returns what an uncached resolver builds for the same card, renderer
\* and default color.
C5_CacheIndependent ==
    (Resolved /\ ~docChanged)
    => last.res = Uncached(Argument(last.obj), last.renderer, last.default_color)

\* C5 happens: a call answered from a cache.
C5_Witness ==
    /\ Resolved
    /\ ~docChanged
    /\ last.hit
    /\ last.res.k = "RenderMaterial"

\* The call went to the standard family of the card's Render.Type.
ResolvedStandard ==
    /\ ResolvedCard
    /\ ~HasPassthroughKey(CardOf(last.obj), last.renderer)
    /\ HasRecognisedFamily(CardOf(last.obj))

ParamsOf(card) == STD_MATERIALS_PARAMETERS[card["Render.Type"]]

ParamKey(card, p) == "Render." \o card["Render.Type"] \o "." \o p.name

\* A raw value malformed for its type: a non-numeric token, or a color with
\* a wrong number of components.
Malformed(typ, raw) ==
    \/ typ = "float" /\ raw = "abc"
    \/ typ = "RGB" /\ raw \in WrongArityTexts \cup {"abc"}

\* The cast of a parameter's declared default.
CastOfDefault(p) == CAST_FUNCTIONS(p.type, p.default, last.default_color, textures)

\* The cast of the card's value for a parameter.
CastOfCard(card, p) ==
    CAST_FUNCTIONS(p.type, card[ParamKey(card, p)], last.default_color, textures)

\* C6: a parameter whose raw value is malformed for its type gets the cast of
\* its default, and no error leaves the resolution.
C6_MalformedRecovered ==
    ResolvedStandard
    => \A i \in 1..Len(ParamsOf(CardOf(last.obj))) :
          LET p == ParamsOf(CardOf(last.obj))[i]
          IN (/\ ParamKey(CardOf(last.obj), p) \in DOMAIN CardOf(last.obj)
              /\ Malformed(p.type, CardOf(last.obj)[ParamKey(CardOf(last.obj), p)]))
             => /\ last.res.k = "RenderMaterial"
                /\ getshaderparam(last.res, p.name) = CastOfDefault(p)

\* Every parameter the card gives has a value its cast accepts.
PresentWellFormed(card) ==
    \A i \in 1..Len(ParamsOf(card)) :
       ParamKey(card, ParamsOf(card)[i]) \in DOMAIN card
       => ~IsRaise(CastOfCard(card, ParamsOf(card)[i]))

\* C7: for a card with a recognised Render.Type, a parameter whose key is
\* absent gets the cast of its declared default and a parameter whose key is
\* present gets the cast of the card's value.
C7_AbsentGetsDefault ==
    (ResolvedStandard /\ PresentWellFormed(CardOf(last.obj)))
    => /\ last.res.k = "RenderMaterial"
       /\ \A i \in 1..Len(ParamsOf(CardOf(last.obj))) :
             LET p == ParamsOf(CardOf(last.obj))[i]
             IN getshaderparam(last.res, p.name) =
                   IF ParamKey(CardOf(last.obj), p) \in DOMAIN CardOf(last.obj)
                   THEN CastOfCard(CardOf(last.obj), p)
                   ELSE CastOfDefault(p)

\* The call was made with no valid material and an RGBA default color: the
\* resolver builds the fallback material of that color.
ResolvedFallback ==
    /\ Resolved
    /\ ~is_valid_material(Argument(last.obj))
    /\ last.default_color.k = "RGBA"

GivenColor == RGB(last.default_color.r, last.default_color.g, last.default_color.b)

Generated == last.op = "write_mesh" /\ last.res.values.k = "MaterialValues"

\* C9: _write_material never fails: for every material the resolver makes,
\* and for every unrecognised family, it returns a text.
C9_WriteNeverFails == Generated => last.res.written.snippet.k = "text"

\* C10: for a family that MATERIALS does not hold, _write_material warns and
\* returns the text of the fallback generator, a flat diffuse texture.
C10_UnknownFamilyFallsBack ==
    (Generated /\ last.material.shadertype \notin MATERIALS)
    => /\ last.res.written.warned
       /\ last.res.written.fallback
       /\ last.res.written.snippet.k = "text"
       /\ Len(last.res.written.snippet.s) = 7
       /\ last.res.written.snippet =
             FallbackText(last.res.written.snippet.s[2], last.res.written.snippet.s[4],
                          last.res.written.snippet.s[6])

\* C10 happens: a material of family Foo was written with a warning.
C10_Witness ==
    /\ Generated
    /\ last.material.shadertype = "Foo"
    /\ last.res.written.warned
    /\ last.res.written.snippet.k = "text"

(***************************************************************************)
(* Properties of MaterialValues.                                           *)
(***************************************************************************)
\* The last operation built a MaterialValues: ValuesBuilt is that object.
ValuesBuilt ==
    IF last.op = "write_mesh" THEN last.res.values
    ELSE IF last.op = "get_material_values" THEN last.res
    ELSE None

Built == ValuesBuilt.k = "MaterialValues"

\* The positions in its log of the calls of a callback for a property.
CallsFor(mv, fn, propname) ==
    {j \in 1..Len(mv.calls) : mv.calls[j].fn = fn /\ mv.calls[j].propname = propname}

\* The positions of the texture-valued properties of a material.
TextureProps(material) ==
    {i \in 1..Len(shaderproperties(material)) :
        IsTexture(shaderproperties(material)[i].val)}

\* The n-th texture-valued property, in the order of the properties.
NthTextureProp(material, n) ==
    CHOOSE i \in TextureProps(material) :
        Cardinality({j \in TextureProps(material) : j <= i}) = n

\* What write_texture_fun gives for the i-th property of the material.
TextureOf(mv, i) ==
    write_texture_fun(mv.callbacks, mv.objname, shaderproperties(mv.material)[i].key,
                      get_param_type(mv.material, shaderproperties(mv.material)[i].key),
                      shaderproperties(mv.material)[i].val)

\* The callbacks called for one property, as the contract of MaterialValues
\* states them.
CalledOnce(mv, i) ==
    LET key == shaderproperties(mv.material)[i].key
        val == shaderproperties(mv.material)[i].val
        wt == CallsFor(mv, "write_texture", key)
        wr == CallsFor(mv, "write_texref", key)
        wv == CallsFor(mv, "write_value", key)
    IN IF val = None THEN wt = {} /\ wr = {} /\ wv = {}
       ELSE IF IsTexture(val)
       THEN /\ Cardinality(wt) = 1
            /\ Cardinality(wr) = 1
            /\ wv = {}
            /\ \A a \in wt, b \in wr :
                  a < b /\ mv.calls[b].arg = TextureOf(mv, i).texname
       ELSE wt = {} /\ wr = {} /\ Cardinality(wv) = 1

\* C11: building a MaterialValues calls the writer callbacks exactly once per
\* non-null property (write_texture then write_texref with the identifier
\* write_texture gave for a texture, write_value for any other value, nothing
\* for None), and the texture list holds one fragment per texture-valued
\* property, in the order visited.
C11_CallbacksOnce ==
    Built
    => /\ \A i \in 1..Len(shaderproperties(ValuesBuilt.material)) :
             CalledOnce(ValuesBuilt, i)
       /\ Len(ValuesBuilt.textures) = Cardinality(TextureProps(ValuesBuilt.material))
       /\ \A n \in 1..Len(ValuesBuilt.textures) :
             ValuesBuilt.textures[n] =
                TextureOf(ValuesBuilt, NthTextureProp(ValuesBuilt.material, n)).texture

\* C11 happens: a material with a plain value, two textures and a None
\* property went through callbacks that name each texture fragment.
C11_Witness ==
    /\ Built
    /\ ValuesBuilt.callbacks = "Plain"
    /\ Len(ValuesBuilt.textures) = 2
    /\ ValuesBuilt.textures[1] # ValuesBuilt.textures[2]
    /\ \E i \in 1..Len(shaderproperties(ValuesBuilt.material)) :
          shaderproperties(ValuesBuilt.material)[i].val = None
    /\ \E j \in 1..Len(ValuesBuilt.calls) : ValuesBuilt.calls[j].fn = "write_value"

\* The MaterialValues was built from a material the resolver returned, of a
\* family of the table.
BuiltFromResolved ==
    /\ Built
    /\ last.renderer # ""
    /\ ValuesBuilt.material.shadertype \in DOMAIN STD_MATERIALS_PARAMETERS

\* The flat name of a parameter: the last element of its path, lower case.
LeafName(p) == LowerAll(split(p.name))[Len(split(p.name))]

\* The text the callbacks give for the leaf of a parameter.
Serialized(mv, p) ==
    LET v == getshaderparam(mv.material, p.name)
    IN IF IsTexture(v)
       THEN write_texref_fun(mv.callbacks,
                             write_texture_fun(mv.callbacks, mv.objname, LeafName(p),
                                               p.type, v).texname,
                             LeafName(p), p.type, v)
       ELSE write_value_fun(mv.callbacks, p.type, v)

\* The texts of the leaves the material has and that are not None, in the
\* order the family declares them.
RECURSIVE LeafValues(_, _, _)
LeafValues(mv, params, i) ==
    IF i > Len(params) THEN << >>
    ELSE (IF \/ IsRaise(getshaderparam(mv.material, params[i].name))
             \/ getshaderparam(mv.material, params[i].name) = None
          THEN << >>
          ELSE <<Serialized(mv, params[i])>>)
         \o LeafValues(mv, params, i + 1)

\* C12: a MaterialValues built from a resolved material holds one serialized
\* value per non-null leaf of the material, in the family's declared
\* parameter order, the nested leaves of Mixed included.
C12_EveryLeafOnce ==
    BuiltFromResolved
    => [i \in 1..Len(ValuesBuilt.values) |-> ValuesBuilt.values[i].val]
         = LeafValues(ValuesBuilt,
                      STD_MATERIALS_PARAMETERS[ValuesBuilt.material.shadertype], 1)

\* The material has the leaf and its value, a cast result, is not None.
LeafNonNull(material, name) ==
    /\ ~IsRaise(getshaderparam(material, name))
    /\ getshaderparam(material, name) # None

\* C13: has_bump() is true if and only if the material's Bump leaf is
\* non-null after casting, whatever the writer callbacks return, and false
\* for a material with no Bump leaf; likewise has_normal() with Normal and
\* has_displacement() with Displacement.
C13_HasBumpIffLeaf ==
    Built
    => /\ has_bump(ValuesBuilt) <=> LeafNonNull(ValuesBuilt.material, "Bump")
       /\ has_normal(ValuesBuilt) <=> LeafNonNull(ValuesBuilt.material, "Normal")
       /\ has_displacement(ValuesBuilt)
             <=> LeafNonNull(ValuesBuilt.material, "Displacement")

(***************************************************************************)
(* Properties of the casts, seen through the standard path of the          *)
(* resolver: the object color of a cast is the default color of the call.  *)
(***************************************************************************)
\* The call went to the standard family and returned a material.
StandardBuilt == ResolvedStandard /\ last.res.k = "RenderMaterial"

\* The raw value the card gives for a parameter.
RawOf(card, p) == card[ParamKey(card, p)]

\* What a color raw value casts to when it does not take the object color:
\* a texture, or the color of its first token, or the cast of the default
\* when that is no color.
NonObjectColor(p, raw) ==
    LET parsed == parse_csv_str(raw)
        v == IF parsed[1] = "Texture" THEN RendererTexture(parsed, textures)
             ELSE str2rgb(parsed[1])
    IN IF IsRaise(v) /\ v.exc = "TypeError" THEN CastOfDefault(p) ELSE v

\* C14: a raw value whose first token is "Object" on a color parameter casts
\* to exactly the object color the caller supplied, and no other raw value
\* does.
C14_ObjectMarker ==
    StandardBuilt
    => \A i \in 1..Len(ParamsOf(CardOf(last.obj))) :
          LET p == ParamsOf(CardOf(last.obj))[i]
          IN (p.type = "RGB" /\ ParamKey(CardOf(last.obj), p) \in DOMAIN CardOf(last.obj))
             => getshaderparam(last.res, p.name) =
                   IF parse_csv_str(RawOf(CardOf(last.obj), p))[1] = "Object"
                   THEN last.default_color
                   ELSE NonObjectColor(p, RawOf(CardOf(last.obj), p))

\* The raw value is the texture marker followed by "<texture>:<channel>".
IsTextureMarker(raw) ==
    /\ Len(parse_csv_str(raw)) = 2
    /\ parse_csv_str(raw)[1] = "Texture"

\* The parameters of the card whose raw value is a texture marker.
MarkerParams(card) ==
    {i \in 1..Len(ParamsOf(card)) :
        /\ ParamKey(card, ParamsOf(card)[i]) \in DOMAIN card
        /\ IsTextureMarker(RawOf(card, ParamsOf(card)[i]))}

\* C15: a raw value "Texture" followed by "<texture>:<channel>" casts to a
\* texture reference of the named texture object of the document whose
\* subname is <channel>, and the reference is the same whether the parameter
\* is float, RGB or texonly typed.
C15_TextureMarker ==
    StandardBuilt
    => \A i \in MarkerParams(CardOf(last.obj)) :
          LET p == ParamsOf(CardOf(last.obj))[i]
              raw == RawOf(CardOf(last.obj), p)
              id == str2imageid(parse_csv_str(raw)[2])
              v == getshaderparam(last.res, p.name)
          IN /\ IsTexture(v)
             /\ v.name = id.texture
             /\ v.subname = id.image
             /\ v.scale = textures[id.texture]
             /\ \A j \in MarkerParams(CardOf(last.obj)) :
                   LET q == ParamsOf(CardOf(last.obj))[j]
                   IN RawOf(CardOf(last.obj), q) = raw
                      => getshaderparam(last.res, q.name) = v

\* A card with the same marker on a float, an RGB and a texonly parameter
\* was resolved.
C15_Witness ==
    /\ StandardBuilt
    /\ {ParamsOf(CardOf(last.obj))[i].type : i \in MarkerParams(CardOf(last.obj))}
          = {"float", "RGB", "texonly"}
    /\ \A i \in MarkerParams(CardOf(last.obj)) :
          RawOf(CardOf(last.obj), ParamsOf(CardOf(last.obj))[i]) = "Texture;T1:Diffuse"
    /\ getshaderparam(last.res, "Bump").subname = "Diffuse"

(***************************************************************************)
(* Properties of the passthrough path.                                     *)
(***************************************************************************)
\* The numbers, 0001 to 9999, of the passthrough lines the card holds for the
\* renderer.
LinesOf(card, renderer) ==
    {i \in CardLines : i \in 1..9999 /\ PassthroughKey(renderer, i) \in DOMAIN card}

\* The lines of the card for the renderer, in ascending key order, one per
\* line, as the resolver stores a passthrough text.
PassthroughTextOf(card, renderer) ==
    Text(ConvertLoop(JoinLines(SortedLines(card, renderer, LinesOf(card, renderer))), 1))

\* C16: the passthrough text of a card is built from exactly the keys of the
\* requested renderer numbered 0001 to 9999, 9999 included, their values one
\* per line in ascending key order.
C16_PassthroughLines ==
    (ResolvedCard /\ LinesOf(CardOf(last.obj), last.renderer) # {})
    => /\ last.res.k = "RenderMaterial"
       /\ last.res.shadertype = "Passthrough"
       /\ getshaderparam(last.res, "string")
             = PassthroughTextOf(CardOf(last.obj), last.renderer)

\* The lines of the card as the card gives them, before the resolver converts
\* them.
OriginalTextOf(card, renderer) ==
    JoinLines(SortedLines(card, renderer, LinesOf(card, renderer)))

\* A text with %NAME% replaced by n and %RED%, %GREEN%, %BLUE% by the channels
\* of c, every other token of it, braces included, left as it is.
RECURSIVE Substituted(_, _, _)
Substituted(tokens, n, c) ==
    IF Len(tokens) = 0 THEN << >>
    ELSE (CASE tokens[1] = "%NAME%" -> <<n>>
            [] tokens[1] = "%RED%" -> <<FloatRepr(c.r)>>
            [] tokens[1] = "%GREEN%" -> <<FloatRepr(c.g)>>
            [] tokens[1] = "%BLUE%" -> <<FloatRepr(c.b)>>
            [] OTHER -> <<tokens[1]>>)
         \o Substituted(Tail(tokens), n, c)

\* The call was for POV-Ray, on a card with passthrough lines that the
\* resolver takes, every one of them.
OwnPassthrough ==
    /\ last.renderer = "Povray"
    /\ last.obj # 0
    /\ is_valid_material(materials[last.obj])
    /\ LinesOf(CardOf(last.obj), last.renderer) # {}
    /\ \A i \in LinesOf(CardOf(last.obj), last.renderer) :
          PassthroughKey(last.renderer, i) \in passthrough_keys[last.renderer]

\* write_mesh generated a Passthrough material of POV-Ray resolved from the
\* passthrough lines of its own card.
GeneratedPassthrough ==
    /\ Generated
    /\ last.material.shadertype = "Passthrough"
    /\ OwnPassthrough

\* C17: the passthrough text converted at resolution and re-hydrated at
\* generation for name n and color c is the original text with %NAME%
\* replaced by n and %RED%, %GREEN%, %BLUE% by the channels of c, its braces
\* unchanged.
C17_PassthroughRoundTrip ==
    GeneratedPassthrough
    => last.res.written.snippet
          = Text(Substituted(OriginalTextOf(CardOf(last.obj), last.renderer),
                             "Box_", last.default_color))

(***************************************************************************)
(* End to end: resolved, then generated by write_mesh.                     *)
(***************************************************************************)
\* How many times the token occurs in the text.
Occurrences(text, token) == Cardinality({i \in 1..Len(text.s) : text.s[i] = token})

\* write_mesh generated a Diffuse material of color (0.8, 0.8, 0.8) that
\* holds no texture.
GeneratedGreyDiffuse ==
    /\ Generated
    /\ last.material.k = "RenderMaterial"
    /\ last.material.shadertype = "Diffuse"
    /\ getshaderparam(last.material, "Color") = RGB(80, 80, 80)
    /\ \A i \in 1..Len(last.material.shader) : ~IsTexture(last.material.shader[i].val)

\* C18: a Diffuse material of color (0.8, 0.8, 0.8) with no textures,
\* resolved and then generated through the POV-Ray plugin, gives a material
\* text in which "0.8" occurs exactly three times, and its MaterialValues
\* holds no texture text.
C18_GreyDiffuse ==
    GeneratedGreyDiffuse
    => /\ last.res.written.snippet.k = "text"
       /\ Occurrences(last.res.written.snippet, "0.8") = 3
       /\ last.res.values.textures = << >>

\* The material was resolved from a Diffuse card of the document.
C18_Witness ==
    /\ GeneratedGreyDiffuse
    /\ last.obj # 0
    /\ DictGet(CardOf(last.obj), "Render.Type", "") = "Diffuse"
    /\ Occurrences(last.res.written.snippet, "0.8") = 3

(***************************************************************************)
(* Properties of the default color of a material.                          *)
(***************************************************************************)
\* The resolver returned a material of a family of the table.
ResolvedOfTable ==
    /\ Resolved
    /\ last.res.k = "RenderMaterial"
    /\ last.res.shadertype \in DOMAIN STD_MATERIALS_PARAMETERS

\* The first parameter of the family's table.
FirstParam(shadertype) == STD_MATERIALS_PARAMETERS[shadertype][1]

\* C19: the first parameter of every family of STD_MATERIALS_PARAMETERS is
\* RGB typed, and the default color of every material built by the standard
\* path, from a card or by the fallback and whatever the order of the values
\* supplied, is the value of that first parameter.
C19_DefaultColorIsFirstParam ==
    /\ \A f \in DOMAIN STD_MATERIALS_PARAMETERS : FirstParam(f).type = "RGB"
    /\ ResolvedOfTable
       => last.res.default_color
             = getshaderparam(last.res, FirstParam(last.res.shadertype).name)

\* The fallback built a Glass material, its IOR supplied before its Color.
C19_Witness ==
    /\ ResolvedOfTable
    /\ ResolvedFallback
    /\ last.res.shadertype = "Glass"
    /\ last.res.shader[1].key = "ior"
    /\ last.res.default_color = getshaderparam(last.res, "Color")
    /\ last.res.default_color = GivenColor

\* The value is a color: it has numeric r, g and b channels.
IsColor(v) == v.k \in {"RGB", "RGBA"}

\* C20: the default color of every material get_rendering_material returns
\* is a color with r, g, b channels, never a texture nor None, whatever the
\* raw values of the card.
C20_DefaultColorIsColor ==
    (Resolved /\ last.res.k = "RenderMaterial") => IsColor(last.res.default_color)

(***************************************************************************)
(* Properties of the steps after the standard families: father, legacy     *)
(* color, hard fallback.  A step that is skipped leaves the result what it *)
(* is for the card without the key of the step.                            *)
(***************************************************************************)
\* The card without the key.
Without(card, key) == [x \in (DOMAIN card) \ {key} |-> card[x]]

\* The material object with another card.
WithCard(obj, card) == [obj EXCEPT !.Material = card]

\* What the resolver gives, in the document as it is, for the material of
\* the call with the key taken off its card.
ResolvedWithout(key) ==
    Uncached(WithCard(materials[last.obj], Without(CardOf(last.obj), key)),
             last.renderer, last.default_color)

\* The card declares a family that STD_MATERIALS_PARAMETERS does not hold.
UnknownFamily(card) ==
    /\ "Render.Type" \in DOMAIN card
    /\ card["Render.Type"] \notin DOMAIN STD_MATERIALS_PARAMETERS

\* C21: a Render.Type that is no key of STD_MATERIALS_PARAMETERS is treated as
\* if the card declared no family: the lookup raises nothing and the result
\* is that of the same card without the Render.Type key.
C21_UnknownFamilyIsAbsent ==
    (ResolvedCard /\ UnknownFamily(CardOf(last.obj)))
    => /\ ~(IsRaise(last.res) /\ last.res.exc = "KeyError")
       /\ last.res = ResolvedWithout("Render.Type")

\* A card of family Foo went on to its father, a Glass material.
C21_Witness ==
    /\ ResolvedCard
    /\ DictGet(CardOf(last.obj), "Render.Type", "") = "Foo"
    /\ ~HasPassthroughKey(CardOf(last.obj), last.renderer)
    /\ "Father" \in DOMAIN CardOf(last.obj)
    /\ last.res.k = "RenderMaterial"
    /\ last.res.shadertype = "Glass"

\* The call reached the father step: a valid card with no passthrough key and
\* no recognised family.
ReachedFatherStep ==
    /\ ResolvedCard
    /\ ~HasPassthroughKey(CardOf(last.obj), last.renderer)
    /\ ~HasRecognisedFamily(CardOf(last.obj))

\* The card has no Father, an empty one, or one that names no valid material
\* of the document.
NoUsableFather(card) ==
    \/ "Father" \notin DOMAIN card
    \/ card["Father"] = ""
    \/ MaterialsNamed(card["Father"]) = {}

\* C22: with the Father key absent, empty, or naming no valid material of the
\* document, the father step raises nothing and falls through: the result is
\* that of the same card with the Father key removed.
C22_NoFatherFallsThrough ==
    (ReachedFatherStep /\ NoUsableFather(CardOf(last.obj)))
    => /\ ~(IsRaise(last.res)
            /\ last.res.exc \in {"KeyError", "AssertionError", "StopIteration"})
       /\ last.res = ResolvedWithout("Father")

\* A card whose Father names nothing in the document resolved by its legacy
\* color.
C22_Witness ==
    /\ ReachedFatherStep
    /\ DictGet(CardOf(last.obj), "Father", "") = "Z"
    /\ DictGet(CardOf(last.obj), "DiffuseColor", "") = "(0.2,0.5,0.8)"
    /\ last.res.k = "RenderMaterial"
    /\ last.res.shadertype = "Diffuse"
    /\ getshaderparam(last.res, "Color") = RGB(20, 50, 80)

\* The legacy color of the card, and its alpha: Transparency / 100, 0 when
\* the card has no Transparency (in hundredths, as every number here).
LegacyColor(card) == str2rgb(card["DiffuseColor"])

LegacyAlpha(card) == float(DictGet(card, "Transparency", "0")).v \div 100

\* The call reached the legacy step on a card that carries a DiffuseColor of
\* three numbers and, if any, a numeric Transparency.
ResolvedLegacy ==
    /\ ReachedFatherStep
    /\ NoUsableFather(CardOf(last.obj))
    /\ "DiffuseColor" \in DOMAIN CardOf(last.obj)
    /\ ~IsRaise(LegacyColor(CardOf(last.obj)))
    /\ ~IsRaise(float(DictGet(CardOf(last.obj), "Transparency", "0")))

InvalidSource ==
    \/ last.obj = 0
    \/ ~materials[last.obj].isMaterialObject
    \/ ~materials[last.obj].hasMaterialDict

\* The source is valid but its card has nothing to resolve: no passthrough
\* key, no recognised family, no usable father and no DiffuseColor.
EmptySource ==
    /\ ~InvalidSource
    /\ ~HasPassthroughKey(CardOf(last.obj), last.renderer)
    /\ ~HasRecognisedFamily(CardOf(last.obj))
    /\ NoUsableFather(CardOf(last.obj))
    /\ "DiffuseColor" \notin DOMAIN CardOf(last.obj)

InCache(m) ==
    \/ \E i \in 1..Len(cacheStandard) : cacheStandard[i].val = m
    \/ \E i \in 1..Len(cachePassthrough) : cachePassthrough[i].val = m
    \/ \E i \in 1..Len(cacheFallback) : cacheFallback[i].val = m

\* The last operation used the material the resolver had just returned:
\* UsedMaterial is that material as the resolver returned it.
UsesResolved ==
    /\ last.op \in {"get_material_values", "write_mesh", "getmixedsubmat", "write_submat"}
    /\ last.renderer # ""

UsedMaterial == IF last.op = "write_submat" THEN last.material.material ELSE last.material

\* C25: a resolved material is not mutated after its construction:
\* get_material_values, the construction of a MaterialValues, getmixedsubmat
\* on the material and on its values, and the POV-Ray generation leave its
\* family, properties, parameter types and default color as the resolver
\* built them, in the cache and in the MaterialValues that refers to it.
C25_NeverMutated ==
    UsesResolved
    => /\ InCache(UsedMaterial)
       /\ Built => ValuesBuilt.material = UsedMaterial
       /\ last.op = "write_submat"
          => /\ last.material.k = "MaterialValues"
             /\ last.material = get_material_values(UsedMaterial, "Box", "Povray")

\* The glass part of a Mixed material was projected and written, and the
\* Mixed material is in its cache as it was built.
C25_Witness ==
    /\ UsesResolved
    /\ last.op = "write_submat"
    /\ last.res.values.k = "MaterialValues"
    /\ last.res.values.material.shadertype = "glass"
    /\ UsedMaterial.shadertype = "Mixed"
    /\ InCache(UsedMaterial)

(***************************************************************************)
(* The caches and the document.                                            *)
(***************************************************************************)
\* C26: after clear(), the next call of get_rendering_material returns the
\* material computed from the document as it is now, whatever was built
\* before the clear and however the document changed since; it is no cache
\* hit.
C26_ClearRestoresFreshness ==
    [][ (last.op = "clear" /\ last'.op = "get_rendering_material")
        => /\ ~last'.hit
           /\ last'.res = Uncached(Argument(last'.obj), last'.renderer,
                                   last'.default_color) ]_vars

\* The card was resolved, the texture object edited, and the card resolved
\* again from the document as it is now: a material built before, built anew
\* with the scale the texture has now.
C26_Witness ==
    /\ Resolved
    /\ docChanged
    /\ last.again
    /\ ~last.hit
    /\ ncalls = MaxCalls + 1
    /\ last.res.k = "RenderMaterial"
    /\ IsTexture(getshaderparam(last.res, "Color"))
    /\ textures["T1"] = 2
    /\ getshaderparam(last.res, "Color").scale = textures["T1"]

(***************************************************************************)
(* Properties of the parameters of a material.                             *)
(***************************************************************************)
\* Every key of the shader's properties has a recorded type.
KeysTyped(m) ==
    \A i \in 1..Len(shaderproperties(m)) :
        get_param_type(m, shaderproperties(m)[i].key) # "KeyError"

\* The values of the material can be constructed, with callbacks that
\* write a value of any type: no KeyError.
ValuesConstruct(m) == MaterialValues("Box", m, "Plain") # Raise("KeyError")

\* Two names getshaderparam takes for one parameter.
SamePath(a, b) == LowerAll(split(a)) = LowerAll(split(b))

\* The value the calls of log set last for the parameter of name.
LastSet(log, name) ==
    log[CHOOSE i \in 1..Len(log) :
            /\ SamePath(log[i].key, name)
            /\ \A j \in (i + 1)..Len(log) : ~SamePath(log[j].key, name)].val

\* Every name set comes back, under each of its spellings, with the value
\* set last.
ReadBack(log, m) ==
    \A i \in 1..Len(log) : \A n \in ParamNames :
        SamePath(n, log[i].key) => getshaderparam(m, n) = LastSet(log, n)

\* One path is the beginning of the other.
IsPrefix(p, q) == Len(p) < Len(q) /\ SubSeq(q, 1, Len(p)) = p

\* The names of log keep apart: none is the namespace of another, none has
\* the element "shader".
Separate(log) ==
    /\ \A i, j \in 1..Len(log) :
          ~IsPrefix(LowerAll(split(log[i].key)), LowerAll(split(log[j].key)))
    /\ \A i \in 1..Len(log) : ~InSeq("shader", LowerAll(split(log[i].key)))

\* The material the resolver returned has a type for each of its keys.
ResolvedTyped ==
    (last.op = "get_rendering_material" /\ ~IsRaise(last.res))
    => /\ KeysTyped(last.res)
       /\ ValuesConstruct(last.res)

\* C27 as stated: after any sequence of setshaderparam calls, and for every
\* material the resolver returns, every key of shaderproperties has a
\* recorded type, the values construct without KeyError, and getshaderparam
\* returns the value last set for a name, whatever the case of its letters.
C27_AnySequence ==
    /\ ResolvedTyped
    /\ last.op = "setshaderparam"
       => /\ ~IsRaise(last.res)
          /\ KeysTyped(last.res)
          /\ ValuesConstruct(last.res)
          /\ ReadBack(last.material, last.res)

\* C27, amended: the same for the sequences of setshaderparam calls whose
\* names keep apart (no name is the namespace of another, no name has the
\* element "shader", the attribute setshaderparam keeps in a namespace).
C27_TypedAndReadBack ==
    /\ ResolvedTyped
    /\ (last.op = "setshaderparam" /\ Separate(last.material))
       => /\ ~IsRaise(last.res)
          /\ KeysTyped(last.res)
          /\ ValuesConstruct(last.res)
          /\ ReadBack(last.material, last.res)

\* Two dotted names set on a material: two namespaces made on the way, the
\* second value read back.
C27_Witness ==
    /\ last.op = "setshaderparam"
    /\ Len(last.material) = 2
    /\ last.material[1].key = "Diffuse.Color"
    /\ last.material[2].key = "Glass.IOR"
    /\ last.material[2].val = PyFloat(150)
    /\ ~IsRaise(last.res)
    /\ getshaderparam(last.res, "Glass.IOR") = PyFloat(150)
    /\ get_param_type(last.res, "glass") = "node"

(***************************************************************************)
(* Properties of the POV-Ray value table.                                  *)
(***************************************************************************)
\* The types the casting layer takes (the keys of CAST_FUNCTIONS) and the
\* types the material model records by itself.
CastTypes == {"float", "RGB", "string", "texonly"}

StructuralTypes == {"node", "str", "RGBA"}

\* The call of setshaderparam just made.
JustSet == last.material[Len(last.material)]

\* The properties of m that setshaderparam made by itself: namespaces and
\* their "shader" attribute.
Structural(m) ==
    {i \in 1..Len(shaderproperties(m)) :
        get_param_type(m, shaderproperties(m)[i].key) \in {"node", "str"}}

\* C28: _write_value returns a text, without raising, for a value of each
\* type of the casting layer (float, RGB, string, texonly) and of each
\* structural type (node, str, RGBA) that a material records.
C28_ValueTableCovers ==
    (last.op = "setshaderparam" /\ ~IsRaise(last.res))
    => /\ JustSet.type \in CastTypes \cup StructuralTypes
          => _write_value(JustSet.type, JustSet.val).k = "text"
       /\ \A i \in Structural(last.res) :
             _write_value(get_param_type(last.res, shaderproperties(last.res)[i].key),
                          shaderproperties(last.res)[i].val).k = "text"

(***************************************************************************)
(* Properties of the fallback generator and of the sub-materials.          *)
(***************************************************************************)
\* The color has its three channels, each a number in [0, 1].
ChannelsInRange(c) ==
    /\ c.k \in {"RGB", "RGBA"}
    /\ \A ch \in {c.r, c.g, c.b} : ch \in 0..100

\* C29: when _write_material falls back for a family MATERIALS does not
\* hold, the pigment has the channels of the material's default color when
\* each is a number in [0, 1], and is white (1, 1, 1) otherwise.
C29_FallbackColor ==
    (Generated /\ last.material.shadertype \notin MATERIALS /\ last.res.written.fallback)
    => last.res.written.snippet =
          IF ChannelsInRange(last.material.default_color)
          THEN FallbackText(FloatRepr(last.material.default_color.r),
                            FloatRepr(last.material.default_color.g),
                            FloatRepr(last.material.default_color.b))
          ELSE FallbackText("1", "1", "1")

\* C30: the sub-material getmixedsubmat projects from a Mixed material has
\* as its shader the values of the parent's sub-shader of that name, shares
\* the parent's parameter types, and carries a family tag that MATERIALS
\* holds: _write_material generates it without the fallback generator.
C30_SubmatIsOwnFamily ==
    /\ (last.op = "getmixedsubmat" /\ ~IsRaise(last.res))
       => /\ shaderproperties(last.res) =
                Get(shaderproperties(last.material), shadername(last.res)).items
          /\ last.res.partypes = last.material.partypes
          /\ last.res.shadertype \in MATERIALS
    /\ (last.op = "write_submat" /\ ~IsRaise(last.res.values))
       => /\ last.res.written.snippet.k = "text"
          /\ ~last.res.written.fallback

====
